---- MODULE Spec2Model ----
(***************************************************************************)
(* A model of the BlueALSA IO threads of src/src/io.c.                     *)
(*                                                                         *)
(* Spec     one transport and the IO thread that serves it: thread start,  *)
(*          the poll loop, the exits through the pthread cleanup stack,    *)
(*          cancellation, and the control plane writing the transport.     *)
(* SpecRtp  the A2DP source threads (SBC and AAC) packet by packet: the    *)
(*          RTP header, the SBC payload header, the AAC fragmentation and  *)
(*          the pacer.                                                     *)
(* SpecMsbc the SCO thread with the mSBC codec, byte by byte: the encoder  *)
(*          buffer, the H2 framing and the writes to the SCO socket.       *)
(* SpecAt   at_parse, applied to one string.                               *)
(* SpecPcm  io_thread_read_pcm and io_thread_write_pcm, system call by     *)
(*          system call.                                                   *)
(* SpecSink the A2DP sink thread with the SBC codec, packet by packet.     *)
(***************************************************************************)
EXTENDS Integers, Sequences, FiniteSets, TLC

VARIABLES
    kind,            \* which io_thread_* function serves the transport
    enable_msbc,     \* the build flag ENABLE_MSBC
    t,               \* struct ba_transport: bt_fd, state, mtu_read, mtu_write, release
    a2dp,            \* t->a2dp: pcm (fd, fifo), ch1/ch2 volume and mute
    sco,             \* t->sco (or t->rfcomm.sco->sco): PCMs, gains, codec, hf_features
    pc,              \* position of the thread
    cancelstate,     \* pthread cancel state of the thread
    cancel_pending,  \* pthread_cancel() has been called on the thread
    cleanup,         \* the pthread cleanup stack, last pushed last
    allocs,          \* per resource: how many times it was acquired
    frees,           \* per resource: how many times it was released
    release_calls,   \* how many times t->release(t) was invoked
    lv,              \* locals of the thread function
    device,          \* t->device->xapl
    wire,            \* what the last step wrote to the RFCOMM socket
    last             \* the step taken last

wvars == <<kind, enable_msbc, t, a2dp, sco, pc, cancelstate, cancel_pending,
           cleanup, allocs, frees, release_calls, lv, device, wire, last>>

VARIABLES
    src,             \* A2DP source: codec, write MTU, SBC frame length and code
                     \* size, channels, AAC maxOutBufBytes, junk byte
    src_pc,          \* position of the A2DP source thread
    seq_number,      \* uint16_t seq_number
    timestamp,       \* uint32_t timestamp, as <<high half, low half>>
    rtp_header,      \* the RTP header at the head of out_buffer
    io_sync,         \* struct io_sync: frames, sampling
    input_len,       \* SBC: bytes in in_buffer; AAC: samples in in_buffer
    out_payload,     \* AAC: the bytes of out_buffer after the RTP header
    payload_len,     \* AAC: bytes of the frame still to send
    out_args,        \* AAC: numOutBytes, numInSamples of the last encode
    random0,         \* the two values random() returned at start
    packets,         \* every write() to the BT socket, in order
    syncs,           \* the frames of every io_thread_time_sync() call, in order
    frames_out,      \* AAC: the length of every frame the encoder put out
    frame_id,        \* AAC: which of frames_out is in out_payload, 0 for none
    enc_err,         \* the last call of the encoder reported an error
    pcm_in           \* SBC: in_buffer up to its head as runs of bytes of the
                     \* PCM pipe, in_samples, the bytes read from the pipe so
                     \* far, and the bytes sbc_encode has consumed, in order

rvars == <<src, src_pc, seq_number, timestamp, rtp_header, io_sync, input_len,
           out_payload, payload_len, out_args, random0, packets, syncs, frames_out,
           frame_id, enc_err, pcm_in>>

VARIABLES
    sbc_state,       \* struct sbc_state, the encoder half: enc_buffer,
                     \* enc_buffer_cnt, enc_pcm_buffer_cnt, enc_frame_number
    pfds2_events,    \* pfds[2].events of io_thread_sco is POLLIN
    sco_stream,      \* the bytes written to the SCO socket since the
                     \* sbc_state was initialised, in order
    frame_at,        \* where in the byte stream each appended frame begins
    h2_bytes,        \* h2_header[1] of every frame the thread encoded, in order
    spk_bytes,       \* how many bytes were read from the speaker PCM since
                     \* the sbc_state was initialised
    short_writes     \* how many times write() on the SCO socket took less
                     \* than it was given

mvars == <<sbc_state, pfds2_events, sco_stream, frame_at, h2_bytes, spk_bytes,
           short_writes>>

VARIABLES
    at_in,           \* the string passed to at_parse, and how it was made
    at_cmd,          \* struct at_command: type, and command[] and value[]
                     \* as one run of memory
    at_ret           \* what at_parse returned, "none" before the call

pvars == <<at_in, at_cmd, at_ret>>

VARIABLES
    pcm_io,          \* one call of io_thread_read_pcm or io_thread_write_pcm
    sink             \* the SBC sink thread, packet by packet

VARIABLES
    pacer,           \* the io_sync of an A2DP source thread and its clock
    dec              \* struct sbc_state, the decoder half: dec_buffer and
                     \* dec_buffer_cnt, and what the last decode did

gvars == <<pacer, dec>>

fvars == <<pcm_io, sink, gvars>>

vars == <<wvars, rvars, mvars, pvars, fvars>>

-----------------------------------------------------------------------------
(* Bounds of the model. *)

\* the control plane and the peer make at most this many writes of a kind
MaxInits == 2
\* largest value of the pacer's frame counter that is followed
MaxPacerFrames == 4
\* the MTU of the transport, when it is set
SmallMtu == 4

-----------------------------------------------------------------------------
(* Program constants. *)

SCO_CODEC_CVSD == 1
SCO_CODEC_MSBC == 2
HFP_AG_FEAT_CODEC == 512
HFP_HF_FEAT_CODEC == 128
HFP_AG_FEAT_ECS == 64

NULL == "NULL"
NOFD == -1
\* the descriptor number an open() or a socket gets
FD == 3

Kinds == {"a2dp_sink_sbc", "a2dp_source_sbc", "a2dp_sink_aac", "a2dp_source_aac",
          "rfcomm", "sco"}
SinkKinds == {"a2dp_sink_sbc", "a2dp_sink_aac"}
SourceKinds == {"a2dp_source_sbc", "a2dp_source_aac"}
A2dpKinds == SinkKinds \cup SourceKinds
AacKinds == {"a2dp_sink_aac", "a2dp_source_aac"}

States == {"IDLE", "PENDING", "ACTIVE", "ABORTED"}

\* what a thread acquires: the codec (sbc_t, AAC handle), the buffers, and
\* in the SCO thread the sbc_state with its two mSBC codecs
Resources == {"codec", "in_buffer", "out_buffer", "pcm_buffer", "sbc_state",
              "msbc_dec", "msbc_enc"}

Volumes == {64, 127}
Gains == {5, 15}

-----------------------------------------------------------------------------
(* The cleanup stack. *)

Handler(routine, arg) == [routine |-> routine, arg |-> arg]

\* the callback behind t->release: closes and clears the BT and PCM
\* descriptors and moves the transport state
transport_release(e) ==
    [e EXCEPT !.release_calls = @ + 1,
              !.t = [@ EXCEPT !.bt_fd = NOFD, !.state = "IDLE"],
              !.a2dp = [@ EXCEPT !.pcm_fd = NOFD],
              !.sco = [@ EXCEPT !.spk_pcm_fd = NOFD, !.mic_pcm_fd = NOFD]]

io_thread_release(e) ==
    IF e.t.release THEN transport_release(e) ELSE e

\* free(ptr), sbc_finish(&sbc), aacDecoder_Close(handle), aacEncClose(&handle)
ReleaseResource(e, ptr) ==
    IF ptr = NULL THEN e ELSE [e EXCEPT !.frees[ptr] = @ + 1]

RunHandler(e, h) ==
    IF h.routine = "io_thread_release" THEN io_thread_release(e)
    ELSE ReleaseResource(e, h.arg)

\* pthread_cleanup_pop(1), n times: the n handlers pushed last, last first
RECURSIVE RunCleanup(_, _, _)
RunCleanup(e, stack, n) ==
    IF n = 0 \/ stack = <<>> THEN e
    ELSE RunCleanup(RunHandler(e, stack[Len(stack)]),
                    SubSeq(stack, 1, Len(stack) - 1), n - 1)

Env == [frees |-> frees, release_calls |-> release_calls,
        t |-> t, a2dp |-> a2dp, sco |-> sco]

PopCount_ReturnAtFailInit(k, label) ==
    CASE k \in {"a2dp_sink_sbc", "a2dp_source_sbc"} ->
           (IF label = "fail" THEN 4 ELSE 0)
      [] k \in AacKinds ->
           (IF label = "fail" THEN 4 ELSE IF label = "fail_init" THEN 2 ELSE 1)
      [] k = "rfcomm" -> 1
      [] k = "sco" -> 2

\* the number of pthread_cleanup_pop(1) between a label and the return
PopCount(k, label) ==
    CASE k \in {"a2dp_sink_sbc", "a2dp_source_sbc"} ->
           (IF label = "fail" THEN 4 ELSE 1)
      [] k \in AacKinds ->
           (IF label = "fail" THEN 4 ELSE IF label = "fail_init" THEN 2 ELSE 1)
      [] k = "rfcomm" -> 1
      [] k = "sco" -> 2

\* pthread_setcancelstate(PTHREAD_CANCEL_DISABLE) is the first statement of
\* every thread but the SCO one, which never touches its cancel state
CancelStateAt(k, where) ==
    IF k = "sco" THEN "ENABLE"
    ELSE IF where = "loop" THEN "ENABLE" ELSE "DISABLE"

LocalsInit == [in_buffer |-> NULL, out_buffer |-> NULL, pcm_buffer |-> NULL,
               sbc |-> NULL, using_msbc |-> FALSE,
               mic_gain |-> 0, spk_gain |-> 0, io_sync_frames |-> 0,
               bt_nonblock |-> FALSE]

DeviceInit == [vendor_id |-> 0, product_id |-> 0, version |-> 0, features |-> 0,
               accev_battery |-> 0, accev_docked |-> 0]

-----------------------------------------------------------------------------
(* The state after the thread of the transport has been created. *)

WorkerInit ==
    /\ kind \in Kinds
    /\ enable_msbc \in BOOLEAN
    /\ t \in [bt_fd : {NOFD, FD}, state : {"ACTIVE"}, mtu_read : {0, SmallMtu},
              mtu_write : {0, SmallMtu}, release : BOOLEAN]
    /\ kind \in A2dpKinds \cup {"rfcomm"} => t.mtu_write = SmallMtu
    /\ kind \in {"rfcomm", "sco"} => t.mtu_read = t.mtu_write
    /\ kind = "sco" => t.bt_fd = NOFD
    /\ kind = "rfcomm" => t.bt_fd = FD /\ t.mtu_read = SmallMtu
    /\ a2dp \in [pcm_fd : {NOFD}, pcm_fifo : BOOLEAN,
                 ch1_volume : {127}, ch2_volume : {127},
                 ch1_muted : {FALSE}, ch2_muted : {FALSE}]
    /\ kind \notin A2dpKinds => a2dp.pcm_fifo = FALSE
    /\ kind \in SourceKinds => a2dp.pcm_fifo = TRUE
    /\ sco \in [spk_pcm_fd : {NOFD}, mic_pcm_fd : {NOFD}, mic_fifo : BOOLEAN,
                mic_gain : {15}, spk_gain : {15},
                codec : {SCO_CODEC_CVSD}, hf_features : {0}]
    /\ kind \notin {"sco"} => sco.mic_fifo = FALSE
    /\ pc = "start"
    /\ cancelstate = "ENABLE"
    /\ cancel_pending = FALSE
    /\ cleanup = <<>>
    /\ allocs = [r \in Resources |-> 0]
    /\ frees = [r \in Resources |-> 0]
    /\ release_calls = 0
    /\ lv = LocalsInit
    /\ device = DeviceInit
    /\ wire = <<>>
    /\ last = "create"

-----------------------------------------------------------------------------
(* Thread start: from the entry of the thread function to its poll loop, or *)
(* to the label it fails to.                                                *)

\* malloc(): NULL, or the block
Malloc(ok, r) == IF ok THEN r ELSE NULL

Acquire(a, r, ok) == IF ok THEN [a EXCEPT ![r] = @ + 1] ELSE a

GoTo(label) ==
    /\ pc' = label
    /\ cancelstate' = CancelStateAt(kind, label)

\* io_thread_open_pcm_read(): opens the FIFO when the descriptor is -1
io_thread_open_pcm_read(fd, ok) ==
    IF fd = NOFD THEN (IF ok THEN FD ELSE NOFD) ELSE fd

\* io_thread_open_pcm_write(): ENXIO without a FIFO, else as for reading
io_thread_open_pcm_write(fd, fifo, ok) ==
    IF ~fifo THEN fd
    ELSE IF fd = NOFD THEN (IF ok THEN FD ELSE NOFD) ELSE fd

io_thread_a2dp_sink_sbc_start ==
    /\ pc = "start" /\ kind = "a2dp_sink_sbc"
    /\ \E codec_ok, in_ok, out_ok \in BOOLEAN :
         LET rel == <<Handler("io_thread_release", "t")>>
             early == t.bt_fd = NOFD \/ t.mtu_read <= 0 \/ ~codec_ok
             inb == Malloc(in_ok, "in_buffer")
             outb == Malloc(out_ok, "out_buffer")
         IN IF early
            THEN /\ cleanup' = rel
                 /\ GoTo("fail_init")
                 /\ UNCHANGED <<allocs, lv>>
            ELSE /\ cleanup' = rel \o <<Handler("sbc_finish", "codec"),
                                        Handler("free", inb), Handler("free", outb)>>
                 /\ allocs' = Acquire(Acquire(Acquire(allocs, "codec", TRUE),
                                 "in_buffer", in_ok), "out_buffer", out_ok)
                 /\ lv' = [lv EXCEPT !.in_buffer = inb, !.out_buffer = outb]
                 /\ GoTo(IF inb = NULL \/ outb = NULL THEN "fail" ELSE "loop")
    /\ last' = "start"
    /\ UNCHANGED <<rvars, mvars, pvars, fvars, device, wire, kind, enable_msbc, t, a2dp, sco, cancel_pending, frees,
                   release_calls>>

io_thread_a2dp_source_sbc_start ==
    /\ pc = "start" /\ kind = "a2dp_source_sbc"
    /\ \E codec_ok, in_ok, out_ok, open_ok \in BOOLEAN :
         LET rel == <<Handler("io_thread_release", "t")>>
             inb == Malloc(in_ok, "in_buffer")
             outb == Malloc(out_ok, "out_buffer")
             fd == io_thread_open_pcm_read(a2dp.pcm_fd, open_ok)
         IN IF ~codec_ok
            THEN /\ cleanup' = rel
                 /\ GoTo("fail_init")
                 /\ UNCHANGED <<allocs, lv, a2dp>>
            ELSE /\ cleanup' = rel \o <<Handler("sbc_finish", "codec"),
                                        Handler("free", inb), Handler("free", outb)>>
                 /\ allocs' = Acquire(Acquire(Acquire(allocs, "codec", TRUE),
                                 "in_buffer", in_ok), "out_buffer", out_ok)
                 /\ lv' = [lv EXCEPT !.in_buffer = inb, !.out_buffer = outb]
                 /\ IF inb = NULL \/ outb = NULL
                    THEN GoTo("fail") /\ UNCHANGED a2dp
                    ELSE /\ a2dp' = [a2dp EXCEPT !.pcm_fd = fd]
                         /\ GoTo(IF fd = NOFD THEN "fail" ELSE "loop")
    /\ last' = "start"
    /\ UNCHANGED <<rvars, mvars, pvars, fvars, device, wire, kind, enable_msbc, t, sco, cancel_pending, frees, release_calls>>

io_thread_a2dp_sink_aac_start ==
    /\ pc = "start" /\ kind = "a2dp_sink_aac"
    /\ \E open_ok, param_ok, in_ok, out_ok \in BOOLEAN :
         LET rel == <<Handler("io_thread_release", "t")>>
             early == t.bt_fd = NOFD \/ t.mtu_read <= 0 \/ ~open_ok
             inb == Malloc(in_ok, "in_buffer")
             outb == Malloc(out_ok, "out_buffer")
         IN IF early
            THEN /\ cleanup' = rel
                 /\ GoTo("fail_open")
                 /\ UNCHANGED <<allocs, lv>>
            ELSE IF ~param_ok
            THEN /\ cleanup' = rel \o <<Handler("aacDecoder_Close", "codec")>>
                 /\ allocs' = Acquire(allocs, "codec", TRUE)
                 /\ GoTo("fail_init")
                 /\ UNCHANGED lv
            ELSE /\ cleanup' = rel \o <<Handler("aacDecoder_Close", "codec"),
                                        Handler("free", inb), Handler("free", outb)>>
                 /\ allocs' = Acquire(Acquire(Acquire(allocs, "codec", TRUE),
                                 "in_buffer", in_ok), "out_buffer", out_ok)
                 /\ lv' = [lv EXCEPT !.in_buffer = inb, !.out_buffer = outb]
                 /\ GoTo(IF inb = NULL \/ outb = NULL THEN "fail" ELSE "loop")
    /\ last' = "start"
    /\ UNCHANGED <<rvars, mvars, pvars, fvars, device, wire, kind, enable_msbc, t, a2dp, sco, cancel_pending, frees,
                   release_calls>>

io_thread_a2dp_source_aac_start ==
    /\ pc = "start" /\ kind = "a2dp_source_aac"
    /\ \E open_ok, param_ok, in_ok, out_ok, fifo_ok \in BOOLEAN :
         LET rel == <<Handler("io_thread_release", "t")>>
             inb == Malloc(in_ok, "in_buffer")
             outb == Malloc(out_ok, "out_buffer")
             fd == io_thread_open_pcm_read(a2dp.pcm_fd, fifo_ok)
         IN IF ~open_ok
            THEN /\ cleanup' = rel
                 /\ GoTo("fail_open")
                 /\ UNCHANGED <<allocs, lv, a2dp>>
            ELSE IF ~param_ok
            THEN /\ cleanup' = rel \o <<Handler("aacEncClose", "codec")>>
                 /\ allocs' = Acquire(allocs, "codec", TRUE)
                 /\ GoTo("fail_init")
                 /\ UNCHANGED <<lv, a2dp>>
            ELSE /\ cleanup' = rel \o <<Handler("aacEncClose", "codec"),
                                        Handler("free", inb), Handler("free", outb)>>
                 /\ allocs' = Acquire(Acquire(Acquire(allocs, "codec", TRUE),
                                 "in_buffer", in_ok), "out_buffer", out_ok)
                 /\ lv' = [lv EXCEPT !.in_buffer = inb, !.out_buffer = outb]
                 /\ IF inb = NULL \/ outb = NULL
                    THEN GoTo("fail") /\ UNCHANGED a2dp
                    ELSE /\ a2dp' = [a2dp EXCEPT !.pcm_fd = fd]
                         /\ GoTo(IF fd = NOFD THEN "fail" ELSE "loop")
    /\ last' = "start"
    /\ UNCHANGED <<rvars, mvars, pvars, fvars, device, wire, kind, enable_msbc, t, sco, cancel_pending, frees, release_calls>>

io_thread_rfcomm_start ==
    /\ pc = "start" /\ kind = "rfcomm"
    /\ cleanup' = <<Handler("io_thread_release", "t")>>
    /\ lv' = [lv EXCEPT !.mic_gain = sco.mic_gain, !.spk_gain = sco.spk_gain]
    /\ sco' = [sco EXCEPT !.codec = SCO_CODEC_CVSD]
    /\ GoTo("loop")
    /\ last' = "start"
    /\ UNCHANGED <<rvars, mvars, pvars, fvars, device, wire, kind, enable_msbc, t, a2dp, cancel_pending, allocs, frees,
                   release_calls>>

io_thread_sco_start ==
    /\ pc = "start" /\ kind = "sco"
    /\ \E ok \in BOOLEAN :
         LET buf == Malloc(ok, "pcm_buffer")
         IN /\ lv' = [lv EXCEPT !.pcm_buffer = buf, !.sbc = NULL, !.using_msbc = FALSE]
            /\ allocs' = Acquire(allocs, "pcm_buffer", ok)
            \* the handlers take the values the pointers have now: sbc is NULL
            /\ cleanup' = <<Handler("free", buf), Handler("free", NULL)>>
            /\ GoTo(IF buf = NULL THEN "fail" ELSE "loop")
    /\ last' = "start"
    /\ UNCHANGED <<rvars, mvars, pvars, fvars, device, wire, kind, enable_msbc, t, a2dp, sco, cancel_pending, frees,
                   release_calls>>

-----------------------------------------------------------------------------
(* The ways out of the thread function. *)

ApplyEnv(e) ==
    /\ frees' = e.frees
    /\ release_calls' = e.release_calls
    /\ t' = e.t
    /\ a2dp' = e.a2dp
    /\ sco' = e.sco

\* from a fail label to the return: the pthread_cleanup_pop(1) on the way
ThreadExit ==
    /\ pc \in {"fail", "fail_init", "fail_open"}
    /\ ApplyEnv(RunCleanup(Env, cleanup, PopCount(kind, pc)))
    /\ cleanup' = SubSeq(cleanup, 1, Len(cleanup) - PopCount(kind, pc))
    /\ pc' = "done"
    /\ last' = "exit"
    /\ UNCHANGED <<rvars, mvars, pvars, fvars, device, wire, kind, enable_msbc, cancelstate, cancel_pending, allocs, lv>>

\* pthread_cancel() acts at a cancellation point (the poll, the reads) when
\* cancellation is enabled: every handler of the stack runs, last first
ThreadCancelled ==
    /\ pc = "loop"
    /\ cancel_pending /\ cancelstate = "ENABLE"
    /\ ApplyEnv(RunCleanup(Env, cleanup, Len(cleanup)))
    /\ cleanup' = <<>>
    /\ pc' = "done"
    /\ last' = "cancelled"
    /\ UNCHANGED <<rvars, mvars, pvars, fvars, device, wire, kind, enable_msbc, cancelstate, cancel_pending, allocs, lv>>

\* poll() fails (EINTR included): every loop goes to fail
PollError ==
    /\ pc = "loop"
    /\ GoTo("fail")
    /\ last' = "poll_error"
    /\ UNCHANGED <<rvars, mvars, pvars, fvars, device, wire, kind, enable_msbc, t, a2dp, sco, cancel_pending, cleanup,
                   allocs, frees, release_calls, lv>>

-----------------------------------------------------------------------------
(* The poll loops.  One action is one pass of the loop that ends at the     *)
(* next poll, or at a fail label.                                           *)

\* transport_release_pcm(): closes the PCM and sets its descriptor to -1
transport_release_pcm(fd) == NOFD

\* transport_set_state(t, state)
transport_set_state(tr, state) == [tr EXCEPT !.state = state]

\* transport_release_bt_sco(), transport_acquire_bt_sco()
transport_release_bt_sco(tr) == [tr EXCEPT !.bt_fd = NOFD]
transport_acquire_bt_sco(tr) == [tr EXCEPT !.bt_fd = FD]

\* the pacer's counter after io_thread_time_sync(&io_sync, frames)
PacerAdd(cnt, frames) == cnt + frames

(* A2DP sink, SBC and AAC *)

SinkEvent ==
    /\ pc = "loop" /\ kind \in SinkKinds
    /\ GoTo("loop")
    /\ last' = "event"
    /\ UNCHANGED <<rvars, mvars, pvars, fvars, device, wire, kind, enable_msbc, t, a2dp, sco, cancel_pending,
                   cleanup, allocs, frees, release_calls, lv>>

\* read() on the BT socket fails: continue
SinkReadError ==
    /\ pc = "loop" /\ kind \in SinkKinds
    /\ t.state = "ACTIVE" /\ t.bt_fd # NOFD
    /\ GoTo("loop")
    /\ last' = "bt_read_error"
    /\ UNCHANGED <<rvars, mvars, pvars, fvars, device, wire, kind, enable_msbc, t, a2dp, sco, cancel_pending,
                   cleanup, allocs, frees, release_calls, lv>>

\* read() on the BT socket returns 0: close it, clear t->bt_fd, fail
SinkBtClosed_KeepFd ==
    /\ pc = "loop" /\ kind \in SinkKinds
    /\ t.state = "ACTIVE" /\ t.bt_fd # NOFD
    /\ GoTo("fail")
    /\ last' = "bt_closed"
    /\ UNCHANGED <<rvars, mvars, pvars, fvars, device, wire, kind, enable_msbc, t, a2dp, sco,
                   cancel_pending, cleanup, allocs, frees, release_calls, lv>>

SinkBtClosed ==
    /\ pc = "loop" /\ kind \in SinkKinds
    /\ t.state = "ACTIVE" /\ t.bt_fd # NOFD
    /\ t' = [t EXCEPT !.bt_fd = NOFD]
    /\ GoTo("fail")
    /\ last' = "bt_closed"
    /\ UNCHANGED <<rvars, mvars, pvars, fvars, device, wire, kind, enable_msbc, a2dp, sco, cancel_pending,
                   cleanup, allocs, frees, release_calls, lv>>

\* a packet: open the PCM for writing, check the payload type, decode, write
SinkPacket ==
    /\ pc = "loop" /\ kind \in SinkKinds
    /\ t.state = "ACTIVE" /\ t.bt_fd # NOFD
    /\ \E open_ok, paytype_ok, epipe \in BOOLEAN :
         LET fd == io_thread_open_pcm_write(a2dp.pcm_fd, a2dp.pcm_fifo, open_ok)
             opened == a2dp.pcm_fifo /\ fd # NOFD
         IN a2dp' = [a2dp EXCEPT !.pcm_fd =
                       IF opened /\ paytype_ok /\ epipe
                       THEN transport_release_pcm(fd) ELSE fd]
    /\ GoTo("loop")
    /\ last' = "packet"
    /\ UNCHANGED <<rvars, mvars, pvars, fvars, device, wire, kind, enable_msbc, t, sco, cancel_pending,
                   cleanup, allocs, frees, release_calls, lv>>

(* A2DP source, SBC and AAC *)

SourceEvent ==
    /\ pc = "loop" /\ kind \in SourceKinds
    /\ lv' = [lv EXCEPT !.io_sync_frames = 0]
    /\ GoTo("loop")
    /\ last' = "event"
    /\ UNCHANGED <<rvars, mvars, pvars, fvars, device, wire, kind, enable_msbc, t, a2dp, sco, cancel_pending,
                   cleanup, allocs, frees, release_calls>>

\* io_thread_read_pcm() returns 0 (end of file, EBADF: the PCM is released)
\* or -1: fail
SourcePcmReadFail ==
    /\ pc = "loop" /\ kind \in SourceKinds
    /\ \E eof \in BOOLEAN :
         a2dp' = [a2dp EXCEPT !.pcm_fd =
                    IF eof THEN transport_release_pcm(@) ELSE @]
    /\ GoTo("fail")
    /\ last' = "pcm_read_fail"
    /\ UNCHANGED <<rvars, mvars, pvars, fvars, device, wire, kind, enable_msbc, t, sco, cancel_pending,
                   cleanup, allocs, frees, release_calls, lv>>

\* PCM data: encode, write to the BT socket, pace; ECONNRESET and ENOTCONN
\* on the write go to fail
SourcePcmData ==
    /\ pc = "loop" /\ kind \in SourceKinds
    /\ t.state = "ACTIVE" /\ a2dp.pcm_fd # NOFD
    /\ lv.io_sync_frames + t.mtu_write \div 2 <= MaxPacerFrames
    /\ \E disconnected \in BOOLEAN :
         IF disconnected
         THEN GoTo("fail") /\ UNCHANGED lv
         ELSE /\ lv' = [lv EXCEPT !.io_sync_frames = PacerAdd(@, t.mtu_write \div 2)]
              /\ GoTo("loop")
    /\ last' = "pcm_data"
    /\ UNCHANGED <<rvars, mvars, pvars, fvars, device, wire, kind, enable_msbc, t, a2dp, sco, cancel_pending,
                   cleanup, allocs, frees, release_calls>>

(* RFCOMM *)

Types == {"SET", "GET", "TEST"}

\* the parsed AT commands the model feeds the dispatcher: the value is the
\* list of the numbers between the commas
AtInputs ==
    {[command |-> c, type |-> "SET", value |-> <<1>>] :
        c \in {"+CMER", "+NREC", "+CCWA", "+BIA", "+BTRH", "RING"}}
    \cup {[command |-> c, type |-> "GET", value |-> <<>>] :
        c \in {"+CIND", "+FOO", "+BTRH", "RING", "+NREC", "+BIA"}}
    \cup {[command |-> c, type |-> "TEST", value |-> <<>>] : c \in {"+CCWA"}}
    \cup {[command |-> "+VGM", type |-> "SET", value |-> <<261>>],
          [command |-> "+VGS", type |-> "SET", value |-> <<5>>],
          [command |-> "+CKPD", type |-> "SET", value |-> <<200>>],
          [command |-> "+BRSF", type |-> "SET", value |-> <<128>>],
          [command |-> "+BRSF", type |-> "SET", value |-> <<768>>],
          [command |-> "+BAC", type |-> "SET", value |-> <<1>>],
          [command |-> "+BAC", type |-> "SET", value |-> <<1, 2>>],
          [command |-> "+IPHONEACCEV", type |-> "SET", value |-> <<2, 3, 9, 1, 5>>],
          [command |-> "+XAPL", type |-> "SET", value |-> <<1, 2>>]}

\* atoi(), strtoul() of the value: its leading number, 0 without one
atoi(value) == IF value = <<>> THEN 0 ELSE value[1]

Response(text) == <<text, -1>>
ResponseNum(text, n) == <<text, n>>

\* io_thread_write_at_response(fd, msg): what goes to the socket
io_thread_write_at_response_Bare(msg) == <<msg[1], msg[2], "\r">>

io_thread_write_at_response(msg) == <<"\r\n", msg[1], msg[2], "\r\n">>

\* the loop of +IPHONEACCEV over the key,value pairs after the count
RECURSIVE Accev(_, _, _)
Accev(dev, count, toks) ==
    IF count = 0 \/ toks = <<>> THEN dev
    ELSE LET key == Head(toks)
             rest == Tail(toks)
         IN IF key = 1
            THEN (IF rest # <<>>
                  THEN Accev([dev EXCEPT !.accev_battery = Head(rest)],
                             count - 1, Tail(rest))
                  ELSE dev)
            ELSE IF key = 2
            THEN (IF rest # <<>>
                  THEN Accev([dev EXCEPT !.accev_docked = Head(rest)],
                             count - 1, Tail(rest))
                  ELSE dev)
            ELSE Accev(dev, count - 1, IF rest = <<>> THEN <<>> ELSE Tail(rest))

\* n & bit, for a bit that is a power of two
BitSet_AtLeast(n, bit) == n >= bit

BitSet(n, bit) == (n \div bit) % 2 = 1

\* the AG features of the +BRSF reply
AgFeatures_AnyHf(msbc, hf_features) ==
    IF msbc THEN HFP_AG_FEAT_ECS + HFP_AG_FEAT_CODEC ELSE HFP_AG_FEAT_ECS

AgFeatures(msbc, hf_features) ==
    IF msbc /\ BitSet(hf_features, HFP_HF_FEAT_CODEC)
    THEN HFP_AG_FEAT_ECS + HFP_AG_FEAT_CODEC
    ELSE HFP_AG_FEAT_ECS

\* the codec after +BRSF
BrsfCodec(msbc, hf_features, codec) ==
    IF msbc /\ BitSet(hf_features, HFP_HF_FEAT_CODEC) THEN codec ELSE SCO_CODEC_CVSD

\* the codec after +BAC=<list>
BacCodec_First(list, codec) ==
    IF list # <<>> /\ list[1] = SCO_CODEC_MSBC
    THEN SCO_CODEC_MSBC ELSE codec

BacCodec(list, codec) ==
    IF \E i \in 1..Len(list) : list[i] = SCO_CODEC_MSBC
    THEN SCO_CODEC_MSBC ELSE codec

\* t->rfcomm.sco->sco.mic_gain = mic_gain = atoi(at.value), and the same
\* for the speaker
SetMicGain(r, gain) ==
    [r EXCEPT !.sco = [@ EXCEPT !.mic_gain = gain], !.lv = [@ EXCEPT !.mic_gain = gain]]
SetSpkGain_WritesMic(r, gain) ==
    [r EXCEPT !.sco = [@ EXCEPT !.mic_gain = gain], !.lv = [@ EXCEPT !.spk_gain = gain]]
SetSpkGain(r, gain) ==
    [r EXCEPT !.sco = [@ EXCEPT !.spk_gain = gain], !.lv = [@ EXCEPT !.spk_gain = gain]]

\* what +CMER=... writes: OK, then the codec selection unless it is CVSD
CmerResponses_OkLast(codec) ==
    IF codec # SCO_CODEC_CVSD
    THEN <<Response("OK"), ResponseNum("+BCS: ", codec), Response("OK")>>
    ELSE <<Response("OK")>>

CmerResponses(codec) ==
    IF codec # SCO_CODEC_CVSD
    THEN <<Response("OK"), ResponseNum("+BCS: ", codec)>>
    ELSE <<Response("OK")>>

\* at.type == AT_CMD_TYPE_<type>
IsType_Any(at, type) == TRUE

IsType(at, type) == at.type = type

\* the dispatch of one parsed command: the paired SCO, the locals, the
\* device and the responses written, in order
RfcommDispatch(at) ==
    LET c == at.command
        same == [sco |-> sco, lv |-> lv, device |-> device,
                 wire |-> <<Response("OK")>>]
        gain == atoi(at.value) % 256
    IN CASE c = "RING" -> same
         [] c = "+CKPD" /\ atoi(at.value) = 200 -> same
         [] c = "+VGM" -> SetMicGain(same, gain)
         [] c = "+VGS" -> SetSpkGain(same, gain)
         [] c = "+IPHONEACCEV" ->
              [same EXCEPT !.device =
                  Accev(device, atoi(at.value),
                        IF at.value = <<>> THEN <<>> ELSE Tail(at.value))]
         [] c = "+XAPL" ->
              IF Len(at.value) = 4
              THEN [same EXCEPT
                      !.device = [device EXCEPT !.vendor_id = at.value[1],
                                                !.product_id = at.value[2],
                                                !.version = at.value[3],
                                                !.features = at.value[4]],
                      !.wire = <<Response("+XAPL=BlueALSA,0")>>]
              ELSE [same EXCEPT !.wire = <<Response("ERROR")>>]
         [] c = "+BRSF" ->
              [same EXCEPT
                 !.sco = [sco EXCEPT
                            !.codec = BrsfCodec(enable_msbc, atoi(at.value), @),
                            !.hf_features = atoi(at.value)],
                 !.wire = <<ResponseNum("+BRSF: ",
                                        AgFeatures(enable_msbc, atoi(at.value))),
                            Response("OK")>>]
         [] c = "+BAC" /\ IsType(at, "SET") ->
              [same EXCEPT !.sco = [sco EXCEPT !.codec = BacCodec(at.value, @)]]
         [] c = "+CIND" ->
              [same EXCEPT !.wire =
                 IF IsType(at, "GET")
                 THEN <<Response("+CIND: 0,0,1,4,0,4,0"), Response("OK")>>
                 ELSE IF IsType(at, "TEST")
                 THEN <<Response("+CIND: schema"), Response("OK")>>
                 ELSE <<Response("OK")>>]
         [] c = "+CMER" /\ IsType(at, "SET") ->
              [same EXCEPT !.wire = CmerResponses(sco.codec)]
         [] c = "+BCS" /\ IsType(at, "SET") -> same
         [] c = "+BTRH" /\ IsType(at, "GET") -> same
         [] c = "+NREC" /\ IsType(at, "SET") -> same
         [] c = "+CCWA" /\ IsType(at, "SET") -> same
         [] c = "+BIA" /\ IsType(at, "SET") -> same
         [] c = "+CHLD" /\ IsType(at, "TEST") ->
              [same EXCEPT !.wire = <<Response("+CHLD: (0,1,2,3)"), Response("OK")>>]
         [] OTHER -> [same EXCEPT !.wire = <<Response("ERROR")>>]

\* an event: the gains of the paired SCO against the last known ones
RfcommEvent ==
    /\ pc = "loop" /\ kind = "rfcomm"
    /\ LET mic == lv.mic_gain # sco.mic_gain
           spk == lv.spk_gain # sco.spk_gain
           mic_gain == sco.mic_gain
       IN /\ lv' = [lv EXCEPT !.mic_gain = sco.mic_gain, !.spk_gain = sco.spk_gain]
          /\ wire' = (IF mic THEN <<ResponseNum("+VGM=", mic_gain)>> ELSE <<>>)
                     \o (IF spk THEN <<ResponseNum("+VGS=", mic_gain)>> ELSE <<>>)
    /\ GoTo("loop")
    /\ last' = "event"
    /\ UNCHANGED <<rvars, mvars, pvars, fvars, device, kind, enable_msbc, t, a2dp, sco, cancel_pending,
                   cleanup, allocs, frees, release_calls>>

\* read() fails with ECONNABORTED, ECONNRESET, ENOTCONN or ETIMEDOUT
RfcommDisconnected ==
    /\ pc = "loop" /\ kind = "rfcomm"
    /\ t' = transport_set_state(t, "ABORTED")
    /\ wire' = <<>>
    /\ GoTo("fail")
    /\ last' = "disconnected"
    /\ UNCHANGED <<rvars, mvars, pvars, fvars, device, kind, enable_msbc, a2dp, sco, cancel_pending,
                   cleanup, allocs, frees, release_calls, lv>>

\* read() fails otherwise, or at_parse() rejects what was read: continue
RfcommSkip ==
    /\ pc = "loop" /\ kind = "rfcomm"
    /\ wire' = <<>>
    /\ GoTo("loop")
    /\ last' = "skip"
    /\ UNCHANGED <<rvars, mvars, pvars, fvars, device, kind, enable_msbc, t, a2dp, sco, cancel_pending,
                   cleanup, allocs, frees, release_calls, lv>>

\* read() returns 0, the peer has closed the socket: only -1 is tested, the
\* zeroed buffer does not begin with AT, at_parse() rejects it: continue
RfcommPeerClosed ==
    /\ pc = "loop" /\ kind = "rfcomm"
    /\ wire' = <<>>
    /\ GoTo("loop")
    /\ last' = "peer_closed"
    /\ UNCHANGED <<rvars, mvars, pvars, fvars, device, kind, enable_msbc, t, a2dp, sco, cancel_pending,
                   cleanup, allocs, frees, release_calls, lv>>

\* one pass of the loop on the parsed command at
RfcommHandle(at) ==
    /\ pc = "loop" /\ kind = "rfcomm"
    /\ LET r == RfcommDispatch(at)
       IN /\ sco' = r.sco
          /\ lv' = r.lv
          /\ device' = r.device
          /\ wire' = r.wire
          /\ last' = at.command
    /\ GoTo("loop")
    /\ UNCHANGED <<rvars, mvars, pvars, fvars, kind, enable_msbc, t, a2dp, cancel_pending,
                   cleanup, allocs, frees, release_calls>>

RfcommCommand == \E at \in AtInputs : RfcommHandle(at)

(* SCO *)

\* iothread_initialize_msbc(sbc): the pointer returned, and the resources
\* acquired and released on the way
iothread_initialize_msbc(sbc, a, f, malloc_ok, dec_ok, enc_ok) ==
    IF sbc = NULL /\ ~malloc_ok
    THEN [sbc |-> NULL, allocs |-> a, frees |-> f]
    ELSE LET a1 == IF sbc = NULL THEN Acquire(a, "sbc_state", TRUE) ELSE a
         IN IF ~dec_ok
            THEN [sbc |-> NULL, allocs |-> a1,
                  frees |-> [f EXCEPT !["sbc_state"] = @ + 1]]
            ELSE IF ~enc_ok
            THEN [sbc |-> NULL, allocs |-> Acquire(a1, "msbc_dec", TRUE),
                  frees |-> [f EXCEPT !["sbc_state"] = @ + 1]]
            ELSE [sbc |-> "sbc_state",
                  allocs |-> Acquire(Acquire(a1, "msbc_dec", TRUE), "msbc_enc", TRUE),
                  frees |-> f]

\* t->sco.spk_pcm.fd == -1 && t->sco.mic_pcm.fd == -1
ScoIdle_SpkOnly(spk, mic) == spk = NOFD

ScoIdle(spk, mic) == spk = NOFD /\ mic = NOFD

\* an event: open the PCMs, release or acquire the SCO link (and set
\* O_NONBLOCK on its socket, which lv.bt_nonblock follows), set up mSBC
ScoEvent ==
    /\ pc = "loop" /\ kind = "sco"
    /\ \E spk_ok, mic_ok, malloc_ok, dec_ok, enc_ok \in BOOLEAN :
         LET spk == io_thread_open_pcm_read(sco.spk_pcm_fd, spk_ok)
             mic == io_thread_open_pcm_write(sco.mic_pcm_fd, sco.mic_fifo, mic_ok)
             r == iothread_initialize_msbc(lv.sbc, allocs, frees,
                                           malloc_ok, dec_ok, enc_ok)
         IN /\ sco' = [sco EXCEPT !.spk_pcm_fd = spk, !.mic_pcm_fd = mic]
            /\ IF ScoIdle(spk, mic)
               THEN /\ t' = transport_release_bt_sco(t)
                    /\ lv' = [lv EXCEPT !.io_sync_frames = 0, !.bt_nonblock = FALSE]
                    /\ GoTo("loop")
                    /\ UNCHANGED <<allocs, frees>>
               ELSE /\ t' = transport_acquire_bt_sco(t)
                    /\ IF enable_msbc /\ sco.codec = SCO_CODEC_MSBC
                       THEN /\ allocs["msbc_dec"] < MaxInits
                            /\ allocs' = r.allocs
                            /\ frees' = r.frees
                            /\ lv' = [lv EXCEPT !.sbc = r.sbc,
                                        !.using_msbc = IF r.sbc = NULL THEN @ ELSE TRUE,
                                        !.bt_nonblock = TRUE]
                            /\ GoTo(IF r.sbc = NULL THEN "fail" ELSE "loop")
                       ELSE /\ GoTo("loop")
                            /\ lv' = [lv EXCEPT !.bt_nonblock = TRUE]
                            /\ UNCHANGED <<allocs, frees>>
    /\ last' = "event"
    /\ UNCHANGED <<rvars, mvars, pvars, fvars, device, wire, kind, enable_msbc, a2dp, cancel_pending, cleanup,
                   release_calls>>

\* the SCO socket is readable; read() returning 0 (the peer closed the link)
\* is not told apart from data in either branch
ScoBtRead ==
    /\ pc = "loop" /\ kind = "sco"
    /\ t.bt_fd # NOFD
    /\ \E len \in {-1, 0, SmallMtu} :
         /\ IF enable_msbc /\ sco.codec = SCO_CODEC_MSBC
            THEN \* sbc->dec_buffer is read through the pointer: a NULL one faults
                 /\ pc' = IF lv.sbc = NULL THEN "crashed" ELSE "loop"
                 /\ UNCHANGED <<t, cancelstate>>
            ELSE /\ t' = IF len # -1 /\ t.mtu_write = 0
                         THEN [t EXCEPT !.mtu_write = len, !.mtu_read = len]
                         ELSE t
                 /\ GoTo("loop")
         /\ last' = IF len = 0 THEN "peer_closed" ELSE "bt_read"
    /\ UNCHANGED <<rvars, mvars, pvars, fvars, device, wire, kind, enable_msbc, a2dp, sco, cancel_pending,
                   cleanup, allocs, frees, release_calls, lv>>

\* the speaker PCM is readable
ScoPcmRead ==
    /\ pc = "loop" /\ kind = "sco"
    /\ sco.spk_pcm_fd # NOFD
    /\ IF enable_msbc /\ sco.codec = SCO_CODEC_MSBC
       THEN /\ pc' = IF lv.sbc = NULL THEN "crashed" ELSE "loop"
            /\ UNCHANGED <<sco, lv, cancelstate>>
       ELSE /\ lv.io_sync_frames + t.mtu_write \div 2 <= MaxPacerFrames
            /\ \E eof \in BOOLEAN :
                 sco' = [sco EXCEPT !.spk_pcm_fd =
                           IF eof THEN transport_release_pcm(@) ELSE @]
            /\ lv' = [lv EXCEPT !.io_sync_frames = PacerAdd(@, t.mtu_write \div 2)]
            /\ GoTo("loop")
    /\ last' = "pcm_read"
    /\ UNCHANGED <<rvars, mvars, pvars, fvars, device, wire, kind, enable_msbc, t, a2dp, cancel_pending,
                   cleanup, allocs, frees, release_calls>>

\* the RFCOMM thread of the paired transport selects the codec (+BRSF, +BAC)
RfcommPeerCodec ==
    /\ pc \in {"start", "loop"} /\ kind = "sco"
    /\ \E c \in {SCO_CODEC_CVSD, SCO_CODEC_MSBC} :
         /\ c # sco.codec
         /\ sco' = [sco EXCEPT !.codec = c]
    /\ last' = "peer_codec"
    /\ UNCHANGED <<rvars, mvars, pvars, fvars, device, wire, kind, enable_msbc, t, a2dp, pc, cancelstate,
                   cancel_pending, cleanup, allocs, frees, release_calls, lv>>

-----------------------------------------------------------------------------
(* The control plane. *)

CtlCancel ==
    /\ pc \in {"start", "loop"}
    /\ ~cancel_pending
    /\ cancel_pending' = TRUE
    /\ last' = "ctl_cancel"
    /\ UNCHANGED <<rvars, mvars, pvars, fvars, device, wire, kind, enable_msbc, t, a2dp, sco, pc, cancelstate, cleanup,
                   allocs, frees, release_calls, lv>>

\* the control plane sets a volume or a mute flag of the A2DP transport
CtlSetVolume ==
    /\ pc \in {"start", "loop"} /\ kind \in A2dpKinds
    /\ \/ \E v \in Volumes : v # a2dp.ch1_volume /\ a2dp' = [a2dp EXCEPT !.ch1_volume = v]
       \/ a2dp' = [a2dp EXCEPT !.ch2_muted = ~@]
    /\ last' = "ctl_volume"
    /\ UNCHANGED <<rvars, mvars, pvars, fvars, device, wire, kind, enable_msbc, t, sco, pc, cancelstate,
                   cancel_pending, cleanup, allocs, frees, release_calls, lv>>

\* the control plane sets a gain of the SCO transport
CtlSetGain ==
    /\ pc \in {"start", "loop"} /\ kind = "rfcomm"
    /\ \E g \in Gains :
         \/ g # sco.mic_gain /\ sco' = [sco EXCEPT !.mic_gain = g]
         \/ g # sco.spk_gain /\ sco' = [sco EXCEPT !.spk_gain = g]
    /\ last' = "ctl_gain"
    /\ UNCHANGED <<rvars, mvars, pvars, fvars, device, wire, kind, enable_msbc, t, a2dp, pc, cancelstate,
                   cancel_pending, cleanup, allocs, frees, release_calls, lv>>

\* the control plane moves the state of the A2DP transport
CtlSetState ==
    /\ pc \in {"start", "loop"} /\ kind \in A2dpKinds
    /\ \E st \in {"ACTIVE", "PENDING"} : st # t.state /\ t' = [t EXCEPT !.state = st]
    /\ last' = "ctl_state"
    /\ UNCHANGED <<rvars, mvars, pvars, fvars, device, wire, kind, enable_msbc, a2dp, sco, pc, cancelstate,
                   cancel_pending, cleanup, allocs, frees, release_calls, lv>>

Next ==
    \/ io_thread_a2dp_sink_sbc_start
    \/ io_thread_a2dp_source_sbc_start
    \/ io_thread_a2dp_sink_aac_start
    \/ io_thread_a2dp_source_aac_start
    \/ io_thread_rfcomm_start
    \/ io_thread_sco_start
    \/ ThreadExit
    \/ ThreadCancelled
    \/ PollError
    \/ SinkEvent
    \/ SinkReadError
    \/ SinkBtClosed
    \/ SinkPacket
    \/ SourceEvent
    \/ SourcePcmReadFail
    \/ SourcePcmData
    \/ RfcommEvent
    \/ RfcommDisconnected
    \/ RfcommSkip
    \/ RfcommPeerClosed
    \/ RfcommCommand
    \/ ScoEvent
    \/ ScoBtRead
    \/ ScoPcmRead
    \/ RfcommPeerCodec
    \/ CtlCancel
    \/ CtlSetVolume
    \/ CtlSetGain
    \/ CtlSetState

\* the A2DP source of SpecRtp, not started
RtpOff ==
    /\ src = [codec |-> "none"]
    /\ src_pc = "off"
    /\ seq_number = 0
    /\ timestamp = <<0, 0>>
    /\ rtp_header = <<>>
    /\ io_sync = [frames |-> 0, sampling |-> 0]
    /\ input_len = 0
    /\ out_payload = <<>>
    /\ payload_len = 0
    /\ out_args = [numOutBytes |-> 0, numInSamples |-> 0]
    /\ random0 = <<0, <<0, 0>>>>
    /\ packets = <<>>
    /\ syncs = <<>>
    /\ frames_out = <<>>
    /\ frame_id = 0
    /\ enc_err = FALSE
    /\ pcm_in = [in_buffer |-> <<>>, in_samples |-> 0, pos |-> 0, encoded |-> <<>>]

\* the mSBC encoder of SpecMsbc, not started
MsbcOff ==
    /\ sbc_state = [enc_buffer |-> <<>>, enc_buffer_cnt |-> 0,
                    enc_buffer_size |-> 0, enc_pcm_buffer_cnt |-> 0,
                    enc_pcm_buffer_size |-> 0, enc_pcm_size |-> 0,
                    enc_frame_number |-> 0]
    /\ pfds2_events = FALSE
    /\ sco_stream = <<>>
    /\ frame_at = <<>>
    /\ h2_bytes = <<>>
    /\ spk_bytes = 0
    /\ short_writes = 0

\* at_parse of SpecAt, not called
AtOff ==
    /\ at_in = [str |-> <<>>]
    /\ at_cmd = [type |-> "SET", mem |-> <<>>]
    /\ at_ret = "none"

\* no call of io_thread_read_pcm or io_thread_write_pcm (SpecPcm)
PcmCallOff == pcm_io = [pc |-> "off"]

\* no SBC sink thread at the level of packets (SpecSink)
SinkOff == sink = [pc |-> "off"]

\* no pacer at the level of the clock (SpecSync)
PacerOff == pacer = [pc |-> "off"]

DecOff == dec = [pc |-> "off"]

GOff == PacerOff /\ DecOff

PcmOff == PcmCallOff /\ SinkOff /\ GOff

Init == WorkerInit /\ RtpOff /\ MsbcOff /\ AtOff /\ PcmOff

Spec == Init /\ [][Next]_vars

(***************************************************************************)
(* The A2DP source threads, packet by packet (SpecRtp).                    *)
(*                                                                         *)
(* A uint32_t is a pair <<high, low>> of 16-bit halves.  A byte of an      *)
(* encoded AAC frame is the number 1000 * f + i: byte i of the f-th frame  *)
(* the encoder put out, so that a byte is known by where it came from.     *)
(***************************************************************************)

MaxPackets == 3

\* sizeof(rtp_header_t) with no CSRC entries, sizeof(rtp_payload_sbc_t)
rtp_header_len == 12
rtp_payload_sbc_len == 1

\* sbc_get_frame_length(), sbc_get_codesize(), transport_get_channels()
SbcConfigs ==
    { [frame_len |-> 119, codesize |-> 512, channels |-> 2],
      [frame_len |->  40, codesize |-> 256, channels |-> 1] }

SbcMtus == {48, 240, 672}
SbcSamplings == {44100, 48000}

\* aacEncInfo(): frameLength, maxOutBufBytes
AacInfo == [frameLength |-> 1024, maxOutBufBytes |-> 100]
AacMtus == {48}
AacSamplings == {44100, 96000}
AacFrameLens == {20, 72, 100}

\* what random() returns for seq_number and timestamp
Randoms == { <<0, <<0, 0>>>>, <<65534, <<65535, 65000>>>> }

\* the content of freshly allocated memory, and of memory past a block
JunkBytes == {0, 255}

\* what write() on the BT socket does: success, or -1 with this errno
WriteResults == {"ok", "error", "ECONNRESET", "ENOTCONN"}

\* errno == ECONNRESET || errno == ENOTCONN
Disconnected_ResetOnly(result) == result = "ECONNRESET"

Disconnected(result) == result \in {"ECONNRESET", "ENOTCONN"}

Min(a, b) == IF a < b THEN a ELSE b

\* x + d in uint32_t, for 0 <= d < 2^30
Add32(x, d) ==
    LET low == x[2] + d
    IN  <<(x[1] + (low \div 65536)) % 65536, low % 65536>>

\* ++seq_number on a uint16_t
NextSeq_NoWrap(s) == s + 1

NextSeq(s) == (s + 1) % 65536

\* the duration io_thread_time_sync returns
Duration_Frames(sampling16, frames) == frames

Duration(sampling16, frames) ==
    IF frames = 0 THEN 0
    ELSE 1000000 * (frames \div sampling16)
            + (1000000 \div sampling16) * (frames % sampling16)

\* io_thread_time_sync: the new io_sync and the returned duration
io_thread_time_sync(sync, frames) ==
    LET sampling == sync.sampling % 65536
    IN  [io_sync  |-> IF frames = 0 THEN sync
                      ELSE [sync EXCEPT !.frames = sync.frames + frames],
         duration |-> Duration(sampling, frames)]

\* memset(rtp_header, 0, ...); version = 2; paytype = 96
RtpHeaderInit ==
    [version |-> 2, paytype |-> 96, markbit |-> 0,
     seq_number |-> 0, timestamp |-> <<0, 0>>]

\* rtp_payload->frame_count = sbc_frames, a 4-bit field
FrameCountField(sbc_frames) == sbc_frames % 16

\* one write() to the BT socket
Packet(header, count, frames, payload, frame, result) ==
    [version |-> header.version, paytype |-> header.paytype,
     markbit |-> header.markbit, seq_number |-> header.seq_number,
     timestamp |-> header.timestamp, frame_count |-> count,
     sbc_frames |-> frames, payload |-> payload, frame |-> frame,
     sent |-> (result = "ok"), errno |-> result, syncs |-> Len(syncs)]

\* the A2DP source before its thread runs
SourceInit ==
    /\ \/ \E c \in SbcConfigs, m \in SbcMtus, r \in SbcSamplings :
            src = [codec |-> "sbc", mtu_write |-> m, frame_len |-> c.frame_len,
                   codesize |-> c.codesize, channels |-> c.channels,
                   sampling |-> r, junk |-> 0]
       \/ \E m \in AacMtus, r \in AacSamplings, j \in JunkBytes :
            src = [codec |-> "aac", mtu_write |-> m, frame_len |-> 0,
                   codesize |-> 0, channels |-> 2,
                   sampling |-> r, junk |-> j]
    /\ src_pc = "start"
    /\ seq_number = 0
    /\ timestamp = <<0, 0>>
    /\ rtp_header = <<>>
    /\ io_sync = [frames |-> 0, sampling |-> 0]
    /\ input_len = 0
    /\ out_payload = <<>>
    /\ payload_len = 0
    /\ out_args = [numOutBytes |-> 0, numInSamples |-> 0]
    /\ random0 = <<0, <<0, 0>>>>
    /\ packets = <<>>
    /\ syncs = <<>>
    /\ frames_out = <<>>
    /\ frame_id = 0
    /\ enc_err = FALSE
    /\ pcm_in = [in_buffer |-> <<>>, in_samples |-> 0, pos |-> 0, encoded |-> <<>>]

\* the local mtu_write of io_thread_a2dp_source_sbc
SbcMtuWrite(c) ==
    IF c.mtu_write < rtp_header_len + rtp_payload_sbc_len + c.frame_len
    THEN rtp_header_len + rtp_payload_sbc_len + c.frame_len
    ELSE c.mtu_write

\* in_buffer_size, in bytes
SbcInBufferSize(c) == c.codesize * (SbcMtuWrite(c) \div c.frame_len)

\* both source threads, from the buffers to the head of the IO loop
SourceStart ==
    /\ src_pc = "start"
    /\ \E r \in Randoms :
        /\ random0' = r
        /\ seq_number' = r[1]
        /\ timestamp' = r[2]
    /\ rtp_header' = RtpHeaderInit
    /\ io_sync' = [frames |-> 0, sampling |-> src.sampling]
    /\ out_payload' = IF src.codec = "aac"
                      THEN [i \in 1..AacInfo.maxOutBufBytes |-> src.junk]
                      ELSE <<>>
    /\ pcm_in' = IF src.codec = "sbc"
                 THEN [pcm_in EXCEPT !.in_samples = SbcInBufferSize(src) \div 2]
                 ELSE pcm_in
    /\ src_pc' = "loop"
    /\ UNCHANGED <<wvars, mvars, pvars, fvars, src, input_len, payload_len, out_args, packets,
                   syncs, frames_out, frame_id, enc_err>>

\* poll() fails, or io_thread_read_pcm returns 0 or -1
SourceFail ==
    /\ src_pc = "loop"
    /\ src_pc' = "done"
    /\ UNCHANGED <<wvars, mvars, pvars, fvars, src, seq_number, timestamp, rtp_header, io_sync,
                   input_len, out_payload, payload_len, out_args, random0,
                   packets, syncs, frames_out, frame_id, enc_err, pcm_in>>

\* an event on the event fd
SourceEventSync ==
    /\ src_pc = "loop"
    /\ io_sync' = [io_sync EXCEPT !.frames = 0]
    /\ UNCHANGED <<wvars, mvars, pvars, fvars, src, src_pc, seq_number, timestamp, rtp_header,
                   input_len, out_payload, payload_len, out_args, random0,
                   packets, syncs, frames_out, frame_id, enc_err, pcm_in>>

\* the runs <<from, to>> of pipe bytes: their size, and one more run at the end
RECURSIVE RunsSize(_)
RunsSize(runs) ==
    IF runs = <<>> THEN 0
    ELSE (Head(runs)[2] - Head(runs)[1]) + RunsSize(Tail(runs))

RunsAppend(runs, run) ==
    IF run[1] = run[2] THEN runs
    ELSE IF runs # <<>> /\ runs[Len(runs)][2] = run[1]
    THEN [runs EXCEPT ![Len(runs)] = <<@[1], run[2]>>]
    ELSE Append(runs, run)

RECURSIVE RunsConcat(_, _)
RunsConcat(runs, more) ==
    IF more = <<>> THEN runs
    ELSE RunsConcat(RunsAppend(runs, Head(more)), Tail(more))

\* the n bytes of the runs that begin off bytes into them
RECURSIVE RunsSlice(_, _, _)
RunsSlice(runs, off, n) ==
    IF n = 0 \/ runs = <<>> THEN <<>>
    ELSE LET from == Head(runs)[1]
             to   == Head(runs)[2]
         IN  IF off >= to - from
             THEN RunsSlice(Tail(runs), off - (to - from), n)
             ELSE LET end == Min(to, from + off + n)
                  IN  RunsConcat(<<<<from + off, end>>>>,
                                 RunsSlice(Tail(runs), 0, n - (end - (from + off))))

\* io_thread_read_pcm(&t->a2dp.pcm, in_buffer_head, in_samples) fills what is
\* free of in_buffer; samples += in_buffer_head - in_buffer
SourceRead ==
    /\ src_pc = "loop"
    /\ IF src.codec = "sbc"
       THEN LET bytes == 2 * pcm_in.in_samples
            IN  /\ input_len' = input_len + bytes
                /\ pcm_in' = [pcm_in EXCEPT
                        !.in_buffer = RunsAppend(@, <<pcm_in.pos, pcm_in.pos + bytes>>),
                        !.pos = @ + bytes]
       ELSE /\ input_len' = src.channels * AacInfo.frameLength
            /\ UNCHANGED pcm_in
    /\ enc_err' = FALSE
    /\ src_pc' = "encode"
    /\ UNCHANGED <<wvars, mvars, pvars, fvars, src, seq_number, timestamp, rtp_header, io_sync,
                   out_payload, payload_len, out_args, random0, packets,
                   syncs, frames_out, frame_id>>

\* the bytes sbc_encode reads at input, off bytes into in_buffer
SbcInput_FromHead(buf, off, n) == RunsSlice(buf, 0, n)

SbcInput(buf, off, n) == RunsSlice(buf, off, n)

\* after the encoding loop: memmove(in_buffer, input, samples * 2) when
\* something is left and input has moved; in_buffer_head = in_buffer + samples
SbcLeftover(buf, off, left) ==
    IF left > 0 /\ off # 0 THEN RunsSlice(buf, off, left) ELSE RunsSlice(buf, 0, left)

\* SBC: one pass of the outer encoding loop, which builds and writes one
\* packet; sbc_encode may fail at the first or at the second frame, which
\* leaves the inner loop only; after the last pass what is left of the input
\* moves to the head of in_buffer
SbcPacket ==
    /\ src.codec = "sbc"
    /\ src_pc = "encode"
    /\ Len(packets) < MaxPackets
    /\ \E result \in WriteResults, fail_at \in {0, 1, 2} :
        LET output_len == SbcMtuWrite(src) - rtp_header_len - rtp_payload_sbc_len
            fit        == Min(input_len \div src.codesize,
                              output_len \div src.frame_len)
            sbc_frames == IF fail_at = 0 THEN fit ELSE fail_at - 1
            pcm_frames == sbc_frames * ((src.codesize \div src.channels) \div 2)
            seq        == NextSeq(seq_number)
            header     == [rtp_header EXCEPT !.seq_number = seq,
                                             !.timestamp = timestamp]
            sync       == io_thread_time_sync(io_sync, pcm_frames)
            left       == input_len - sbc_frames * src.codesize
            off        == RunsSize(pcm_in.in_buffer) - input_len
            taken      == SbcInput(pcm_in.in_buffer, off, sbc_frames * src.codesize)
            encoded    == RunsConcat(pcm_in.encoded, taken)
        IN  /\ sbc_frames <= fit
            /\ enc_err' = (fail_at \in 1..fit)
            /\ seq_number' = seq
            /\ rtp_header' = header
            /\ packets' = Append(packets,
                    Packet(header, FrameCountField(sbc_frames), sbc_frames,
                           <<>>, 0, result))
            /\ input_len' = left
            /\ IF Disconnected(result)
               THEN /\ src_pc' = "done"
                    /\ pcm_in' = [pcm_in EXCEPT !.encoded = encoded]
                    /\ UNCHANGED <<timestamp, io_sync, syncs>>
               ELSE /\ timestamp' = Add32(timestamp, sync.duration)
                    /\ io_sync' = sync.io_sync
                    /\ syncs' = Append(syncs, pcm_frames)
                    /\ IF left >= src.codesize
                       THEN /\ src_pc' = "encode"
                            /\ pcm_in' = [pcm_in EXCEPT !.encoded = encoded]
                       ELSE /\ src_pc' = "loop"
                            /\ pcm_in' = [pcm_in EXCEPT
                                    !.encoded = encoded,
                                    !.in_buffer = SbcLeftover(@, off + sbc_frames * src.codesize, left),
                                    !.in_samples = SbcInBufferSize(src) \div 2 - left \div 2]
    /\ UNCHANGED <<wvars, mvars, pvars, fvars, src, out_payload, payload_len, out_args, random0,
                   frames_out, frame_id>>

\* byte i of the f-th frame of n bytes the AAC encoder put out
FrameByte(f, i) == 1000 * f + i

\* out_payload[i], counting from 1; past the block whatever is there
ByteAt(buf, i) == IF i <= Len(buf) THEN buf[i] ELSE src.junk

\* AAC: what follows the fragment loop: consume the input, pace
AacAfterFrame(args) ==
    LET sync == io_thread_time_sync(io_sync, args.numInSamples \div src.channels)
        left == input_len - args.numInSamples
    IN  /\ input_len' = left
        /\ timestamp' = Add32(timestamp, sync.duration)
        /\ io_sync' = sync.io_sync
        /\ syncs' = Append(syncs, args.numInSamples \div src.channels)
        /\ src_pc' = IF left # 0 THEN "encode" ELSE "loop"

\* AAC: aacEncEncode, and the head of the fragment loop when it put out bytes;
\* on an error the encoder has left out_args alone or has cleared it
AacEncode ==
    /\ src.codec = "aac"
    /\ src_pc = "encode"
    /\ Len(syncs) < MaxPackets
    /\ \E ok \in BOOLEAN, n \in AacFrameLens \cup {0}, cleared \in BOOLEAN :
        LET args == IF ok THEN [numOutBytes |-> n, numInSamples |-> input_len]
                    ELSE IF cleared THEN [numOutBytes |-> 0, numInSamples |-> 0]
                    ELSE out_args
            f    == Len(frames_out) + 1
        IN  /\ ok => ~cleared
            /\ ~ok => n = 0
            /\ out_args' = args
            /\ enc_err' = ~ok
            /\ IF ok /\ n > 0
               THEN /\ frames_out' = Append(frames_out, n)
                    /\ frame_id' = f
                    /\ out_payload' = [i \in 1..Len(out_payload) |->
                            IF i <= n THEN FrameByte(f, i) ELSE out_payload[i]]
               ELSE /\ frame_id' = 0
                    /\ UNCHANGED <<frames_out, out_payload>>
            /\ IF args.numOutBytes > 0
               THEN /\ payload_len' = args.numOutBytes
                    /\ rtp_header' = [rtp_header EXCEPT !.timestamp = timestamp]
                    /\ src_pc' = "fragment"
                    /\ UNCHANGED <<input_len, timestamp, io_sync, syncs>>
               ELSE /\ AacAfterFrame(args)
                    /\ UNCHANGED <<payload_len, rtp_header>>
    /\ UNCHANGED <<wvars, mvars, pvars, fvars, src, seq_number, random0, packets, pcm_in>>

\* rtp_header->markbit = len < payload_len_max
Markbit_LastFull(len, payload_len_max) == IF len <= payload_len_max THEN 1 ELSE 0

Markbit(len, payload_len_max) == IF len < payload_len_max THEN 1 ELSE 0

\* memmove(out_payload, out_payload + ret, payload_len)
MovePayload(buf, ret, left) ==
    [i \in 1..Len(buf) |-> IF i <= left THEN ByteAt(buf, i + ret) ELSE buf[i]]

\* AAC: one pass of the fragment loop, which writes one packet
AacFragment ==
    /\ src.codec = "aac"
    /\ src_pc = "fragment"
    /\ Len(packets) < MaxPackets
    /\ \E result \in WriteResults :
        LET payload_len_max == src.mtu_write - rtp_header_len
            len    == Min(payload_len, payload_len_max)
            seq    == NextSeq(seq_number)
            header == [rtp_header EXCEPT !.markbit = Markbit(len, payload_len_max),
                                         !.seq_number = seq]
            ret    == rtp_header_len + len
            left   == payload_len - (ret - rtp_header_len)
        IN  /\ seq_number' = seq
            /\ rtp_header' = header
            /\ packets' = Append(packets,
                    Packet(header, 0, 0, SubSeq(out_payload, 1, len),
                           frame_id, result))
            /\ CASE Disconnected(result) ->
                    /\ src_pc' = "done"
                    /\ UNCHANGED <<payload_len, out_payload, input_len,
                                   timestamp, io_sync, syncs>>
                 [] result = "error" ->
                    /\ AacAfterFrame(out_args)
                    /\ UNCHANGED <<payload_len, out_payload>>
                 [] result = "ok" /\ left = 0 ->
                    /\ payload_len' = left
                    /\ AacAfterFrame(out_args)
                    /\ UNCHANGED out_payload
                 [] OTHER ->
                    /\ payload_len' = left
                    /\ out_payload' = MovePayload(out_payload, ret, left)
                    /\ UNCHANGED <<src_pc, input_len, timestamp, io_sync, syncs>>
    /\ UNCHANGED <<wvars, mvars, pvars, fvars, src, out_args, random0, frames_out, frame_id,
                   enc_err, pcm_in>>

\* the worker of Spec, standing still while SpecRtp looks inside the source
WorkerIdle ==
    /\ WorkerInit
    /\ kind = "a2dp_source_sbc"
    /\ ~enable_msbc
    /\ t.bt_fd = FD /\ t.mtu_read = SmallMtu /\ t.mtu_write = SmallMtu /\ t.release

InitRtp == WorkerIdle /\ SourceInit /\ MsbcOff /\ AtOff /\ PcmOff

NextRtp ==
    \/ SourceStart
    \/ SourceFail
    \/ SourceEventSync
    \/ SourceRead
    \/ SbcPacket
    \/ AacEncode
    \/ AacFragment

SpecRtp == InitRtp /\ [][NextRtp]_vars

-----------------------------------------------------------------------------
(* The exits of the threads and what they write to the transport. *)

ReleasingKinds == A2dpKinds \cup {"rfcomm"}

\* the passes of the poll loops and the thread start, as against the steps
\* of the control plane and the cleanup handlers
WorkerSteps == {"start", "poll_error", "event", "bt_read_error", "bt_closed",
                "packet", "pcm_read_fail", "pcm_data", "disconnected", "skip",
                "bt_read", "pcm_read", "peer_closed"}
               \cup {at.command : at \in AtInputs}

\* C1: in the A2DP threads and the RFCOMM thread the release callback of the
\* transport has been invoked exactly once when the thread has ended, by
\* whatever way it ended, and not at all while the thread still runs.
C1_ReleaseExactlyOnce ==
    (kind \in ReleasingKinds /\ t.release) =>
        release_calls = IF pc = "done" THEN 1 ELSE 0

\* a source thread that was cancelled in its loop and has released
C1_Witness ==
    /\ kind = "a2dp_source_aac" /\ t.release
    /\ pc = "done" /\ last = "cancelled"
    /\ release_calls = 1

\* C2: when the SCO thread has ended on a fatal error (no PCM buffer, poll
\* failure, mSBC set-up failure) the release callback of the transport has
\* been invoked exactly once.
C2_ScoReleaseOnFatalError ==
    (kind = "sco" /\ t.release /\ pc = "done" /\ last = "exit") =>
        release_calls = 1

C4_EverythingReleasedOnce ==
    /\ \A r \in Resources : frees[r] <= allocs[r]
    /\ pc = "done" => \A r \in Resources : frees[r] = allocs[r]

(***************************************************************************)
(* Claims about the RTP packets of the A2DP source (SpecRtp).              *)
(***************************************************************************)

\* the packets whose write() succeeded, in order
SentPackets == SelectSeq(packets, LAMBDA p : p.sent)

\* the 16-bit sampling rate the pacer divides by
PacerRate == src.sampling % 65536

\* the microseconds the pacer reports for n PCM frames
MicroDuration(n) ==
    1000000 * (n \div PacerRate) + (1000000 \div PacerRate) * (n % PacerRate)

RECURSIVE TicksBefore(_)
\* the initial timestamp plus the PCM frames of the first n pacer calls
TicksBefore(n) ==
    IF n = 0 THEN random0[2] ELSE Add32(TicksBefore(n - 1), syncs[n])

RECURSIVE MicrosBefore(_)
\* the initial timestamp plus the microseconds of the first n pacer calls
MicrosBefore(n) ==
    IF n = 0 THEN random0[2]
    ELSE Add32(MicrosBefore(n - 1), MicroDuration(syncs[n]))

\* C5 as claimed: every RTP packet of the A2DP source has version 2 and
\* payload type 96, the first transmitted packet carries the initial random
\* sequence number plus one, and consecutive transmitted packets differ by
\* exactly one modulo 2^16.
C5_SeqOncePerTransmitted ==
    /\ \A i \in 1..Len(packets) :
            packets[i].version = 2 /\ packets[i].paytype = 96
    /\ Len(SentPackets) > 0 =>
            SentPackets[1].seq_number = (random0[1] + 1) % 65536
    /\ \A i \in 1..(Len(SentPackets) - 1) :
            SentPackets[i + 1].seq_number
                = (SentPackets[i].seq_number + 1) % 65536

\* C5 amended: every RTP packet of the A2DP source has version 2 and payload
\* type 96, and the sequence number is incremented once per packet handed to
\* write(), whether or not the write succeeds: the i-th packet written
\* carries the initial random value plus i modulo 2^16.
C5_SeqOncePerWrite ==
    \A i \in 1..Len(packets) :
        /\ packets[i].version = 2
        /\ packets[i].paytype = 96
        /\ packets[i].seq_number = (random0[1] + i) % 65536

\* C5 witness: three packets whose sequence number wraps from 65535 to 0,
\* the first of them lost to a write error.
C5_Witness ==
    /\ Len(packets) = 3
    /\ ~packets[1].sent /\ packets[2].sent /\ packets[3].sent
    /\ packets[1].seq_number = 65535
    /\ packets[2].seq_number = 0
    /\ packets[3].seq_number = 1

\* C6 as claimed: the timestamp of the k-th packet is the initial timestamp
\* plus the number of PCM frames carried by the packets before it, modulo
\* 2^32.
C6_TimestampInPcmFrames ==
    \A k \in 1..Len(packets) :
        packets[k].timestamp = TicksBefore(packets[k].syncs)

\* C6 amended: the timestamp of the k-th packet is the initial timestamp
\* plus, for every pacer call made before the packet was built, the duration
\* the pacer reports for the PCM frames n of that call, in microseconds:
\* 1000000 * (n div rate) + (1000000 div rate) * (n mod rate), rate being the
\* sampling rate held in 16 bits, modulo 2^32.
C6_TimestampInMicroseconds ==
    \A k \in 1..Len(packets) :
        packets[k].timestamp = MicrosBefore(packets[k].syncs)

\* C6 witness: the third SBC packet, its timestamp wrapped past 2^32.
C6_Witness ==
    /\ src.codec = "sbc"
    /\ Len(packets) = 3
    /\ packets[1].timestamp = <<65535, 65000>>
    /\ packets[3].syncs = 2
    /\ packets[3].timestamp[1] = 0

\* C7 as claimed: the frame_count field of every SBC packet equals the number
\* of SBC frames packed into the packet.
C7_FrameCountIsFramesPacked ==
    src.codec = "sbc" =>
        \A i \in 1..Len(packets) :
            packets[i].frame_count = packets[i].sbc_frames

\* the payload bytes of the packets of frame f before packet i
Offset(i) ==
    LET before == { j \in 1..(i - 1) : packets[j].frame = packets[i].frame }
        first  == IF before = {} THEN i
                  ELSE CHOOSE j \in before : \A h \in before : j <= h
    IN  IF before = {} THEN 0
        ELSE (i - first) * Len(packets[first].payload)

\* packet i is a fragment of an encoded frame longer than one payload
IsFragment(i) ==
    /\ src.codec = "aac"
    /\ packets[i].frame > 0
    /\ frames_out[packets[i].frame] > src.mtu_write - rtp_header_len

\* packet i ends its frame
IsLastFragment(i) ==
    Offset(i) + Len(packets[i].payload) = frames_out[packets[i].frame]

\* C8 as claimed: the fragments of an AAC frame longer than MTU -
\* rtp_header_len carry at most that many payload bytes, consecutive sequence
\* numbers, and MARK = 1 except the last, which has MARK = 0.
C8_MarkOnAllButLast ==
    \A i \in 1..Len(packets) :
        IsFragment(i) =>
            /\ Len(packets[i].payload) <= src.mtu_write - rtp_header_len
            /\ (i > 1 /\ packets[i - 1].frame = packets[i].frame) =>
                    packets[i].seq_number
                        = (packets[i - 1].seq_number + 1) % 65536
            /\ packets[i].markbit = IF IsLastFragment(i) THEN 0 ELSE 1

\* C8 amended: the fragments of an AAC frame longer than MTU - rtp_header_len
\* carry at most that many payload bytes and consecutive sequence numbers;
\* every fragment but the last carries exactly MTU - rtp_header_len bytes
\* and MARK = 0, and the last fragment has MARK = 1 if it is shorter than
\* MTU - rtp_header_len and MARK = 0 if it is exactly that long.
C8_MarkOnShortFragment ==
    \A i \in 1..Len(packets) :
        IsFragment(i) =>
            LET max == src.mtu_write - rtp_header_len
            IN  /\ Len(packets[i].payload) <= max
                /\ (i > 1 /\ packets[i - 1].frame = packets[i].frame) =>
                        packets[i].seq_number
                            = (packets[i - 1].seq_number + 1) % 65536
                /\ ~IsLastFragment(i) =>
                        Len(packets[i].payload) = max /\ packets[i].markbit = 0
                /\ IsLastFragment(i) =>
                        packets[i].markbit
                            = IF Len(packets[i].payload) < max THEN 1 ELSE 0

\* C8 witness: a frame of 100 bytes sent over MTU 48 as fragments of 36, 36
\* and 28 bytes with MARK 0, 0 and 1.
C8_Witness ==
    /\ src.codec = "aac" /\ src.mtu_write = 48
    /\ Len(packets) = 3
    /\ frames_out = <<100>>
    /\ \A i \in 1..3 : packets[i].frame = 1 /\ packets[i].sent
    /\ Len(packets[3].payload) = 28
    /\ packets[1].markbit = 0 /\ packets[2].markbit = 0 /\ packets[3].markbit = 1
    /\ src_pc = "loop"

RECURSIVE Concatenated(_, _)
\* the payloads of the packets of frame f among the first n, end to end
Concatenated(f, n) ==
    IF n = 0 THEN <<>>
    ELSE IF packets[n].frame = f
         THEN Concatenated(f, n - 1) \o packets[n].payload
         ELSE Concatenated(f, n - 1)

\* every fragment of frame f has been written, and none was lost
AllFragmentsSent(f) ==
    /\ \A i \in 1..Len(packets) : packets[i].frame = f => packets[i].sent
    /\ \E i \in 1..Len(packets) : packets[i].frame = f /\ IsLastFragment(i)

\* C9 as claimed: the payloads of the fragments of an encoded AAC frame, in
\* sequence order, are exactly the bytes of the frame.
C9_FragmentsConcatenateToFrame ==
    \A f \in 1..Len(frames_out) :
        AllFragmentsSent(f) =>
            Concatenated(f, Len(packets))
                = [i \in 1..frames_out[f] |-> FrameByte(f, i)]

(***************************************************************************)
(* The SCO thread with the mSBC codec, byte by byte (SpecMsbc).            *)
(*                                                                         *)
(* The speaker PCM is open and the microphone PCM is closed, so that what  *)
(* the thread reads from the SCO socket is dropped (dec_buffer_cnt = 0)    *)
(* and every read from the socket is followed by a write of encoded data.  *)
(***************************************************************************)

MaxFrames == 4

SCO_H2_HDR_LEN == 2
MSBC_FRAME_LEN == 57
SCO_H2_FRAME_LEN == SCO_H2_HDR_LEN + MSBC_FRAME_LEN
MSBC_PCM_LEN == 240
SCO_H2_HDR_0 == 1
MSBC_SYNC == 173

\* sizeof(struct msbc_frame): h2_header[2], payload[57], padding
sizeof_msbc_frame_NoPadding == SCO_H2_HDR_LEN + MSBC_FRAME_LEN

sizeof_msbc_frame == SCO_H2_HDR_LEN + MSBC_FRAME_LEN + 1

h2_header_frame_number == <<8, 56, 200, 248>>

\* an encoded mSBC frame: the 57 bytes of msbc_zero
msbc_zero ==
    <<173, 0, 0, 197, 0, 0, 0, 0, 119, 109, 182, 221,
      219, 109, 183, 118, 219, 109, 221, 182, 219, 119, 109,
      182, 221, 219, 109, 183, 118, 219, 109, 221, 182, 219,
      119, 109, 182, 221, 219, 109, 183, 118, 219, 109, 221,
      182, 219, 119, 109, 182, 221, 219, 109, 183, 118, 219,
      108>>

\* what sbc_encode writes into frame->payload
sbc_encode_msbc == msbc_zero

\* the length in bytes the SCO thread writes at a time
ScoWriteLen == 24

\* iothread_initialize_msbc: memset(sbc, 0, sizeof(*sbc)) and the sizes
\* the sbc_state iothread_initialize_msbc returns, old being the one passed
SbcStateInit(old) ==
    [dec_buffer_cnt      |-> 0,
     dec_buffer_size     |-> SCO_H2_FRAME_LEN * 2,
     enc_buffer          |-> [i \in 1..(SCO_H2_FRAME_LEN * 4) |-> 0],
     enc_buffer_cnt      |-> 0,
     enc_buffer_size     |-> SCO_H2_FRAME_LEN * 4,
     enc_pcm_buffer_cnt  |-> 0,
     enc_pcm_buffer_size |-> MSBC_PCM_LEN * 4,
     enc_pcm_size        |-> MSBC_PCM_LEN,
     enc_frame_number    |-> 0]

\* the sbc_state that is not there: sbc = NULL
SbcStateNone ==
    [dec_buffer_cnt |-> 0, dec_buffer_size |-> 0,
     enc_buffer |-> <<>>, enc_buffer_cnt |-> 0, enc_buffer_size |-> 0,
     enc_pcm_buffer_cnt |-> 0, enc_pcm_buffer_size |-> 0, enc_pcm_size |-> 0,
     enc_frame_number |-> 0]

MsbcInit ==
    /\ sbc_state = SbcStateInit(SbcStateNone)
    /\ pfds2_events = TRUE
    /\ sco_stream = <<>>
    /\ frame_at = <<>>
    /\ h2_bytes = <<>>
    /\ spk_bytes = 0
    /\ short_writes = 0

\* writing bytes into a buffer at offset at (from 0); a write past the end
\* of the buffer is lost to what lies behind it
Store(buf, at, bytes) ==
    [i \in 1..Len(buf) |->
        IF i > at /\ i <= at + Len(bytes) THEN bytes[i - at] ELSE buf[i]]

\* memmove(buf, buf + from, n)
MoveDown(buf, from, n) ==
    [i \in 1..Len(buf) |-> IF i <= n THEN buf[i + from] ELSE buf[i]]

RECURSIVE EncodeLoop(_, _, _)
\* the loop of iothread_encode_msbc_frames; sbc_encode fails at its
\* fail_at-th call, never if fail_at = 0.  st holds the state, the PCM
\* consumed, the offsets of the frames appended, and whether it failed.
EncodeLoop(st, fail_at, call) ==
    LET s == st.sbc IN
    IF /\ s.enc_pcm_buffer_cnt - st.pcm_consumed >= s.enc_pcm_size
       /\ s.enc_buffer_size - s.enc_buffer_cnt >= SCO_H2_FRAME_LEN
    THEN IF call = fail_at
         THEN [st EXCEPT !.failed = TRUE]
         ELSE LET at     == s.enc_buffer_cnt
                  header == <<SCO_H2_HDR_0,
                              h2_header_frame_number[s.enc_frame_number + 1]>>
                  buf    == Store(s.enc_buffer, at, header \o sbc_encode_msbc)
              IN  EncodeLoop(
                    [sbc |-> [s EXCEPT
                                !.enc_buffer = buf,
                                !.enc_frame_number = (s.enc_frame_number + 1) % 4,
                                !.enc_buffer_cnt = at + sizeof_msbc_frame],
                     pcm_consumed |-> st.pcm_consumed + s.enc_pcm_size,
                     appended |-> Append(st.appended, at),
                     failed |-> FALSE],
                    fail_at, call + 1)
    ELSE st

\* iothread_encode_msbc_frames: the new state and the offsets in enc_buffer
\* of the frames appended
iothread_encode_msbc_frames(s, fail_at) ==
    LET st == EncodeLoop([sbc |-> s, pcm_consumed |-> 0, appended |-> <<>>,
                          failed |-> FALSE], fail_at, 1)
    IN  [sbc |-> IF st.failed THEN st.sbc
                 ELSE [st.sbc EXCEPT !.enc_pcm_buffer_cnt =
                            st.sbc.enc_pcm_buffer_cnt - st.pcm_consumed],
         appended |-> st.appended]

\* iothread_write_encoded_data: the new state and the bytes written;
\* written is what write() returns, -1 or the bytes the socket took
iothread_write_encoded_data_DropsLength(s, length, written) ==
    IF s.enc_buffer_cnt < length \/ written = -1
    THEN [sbc |-> s, written |-> <<>>]
    ELSE [sbc |-> [s EXCEPT
                     !.enc_buffer = MoveDown(s.enc_buffer, length,
                                             s.enc_buffer_cnt - length),
                     !.enc_buffer_cnt = s.enc_buffer_cnt - length],
          written |-> SubSeq(s.enc_buffer, 1, written)]

iothread_write_encoded_data(s, length, written) ==
    IF s.enc_buffer_cnt < length \/ written = -1
    THEN [sbc |-> s, written |-> <<>>]
    ELSE [sbc |-> [s EXCEPT
                     !.enc_buffer = MoveDown(s.enc_buffer, written,
                                             s.enc_buffer_cnt - written),
                     !.enc_buffer_cnt = s.enc_buffer_cnt - written],
          written |-> SubSeq(s.enc_buffer, 1, written)]

\* (sbc->enc_buffer_size - sbc->enc_buffer_cnt) >= SCO_H2_FRAME_LEN
HasRoom_Never(s) == FALSE

HasRoom(s) == s.enc_buffer_size - s.enc_buffer_cnt >= SCO_H2_FRAME_LEN

\* enc_buffer_cnt has passed enc_buffer_size: the size_t difference of the
\* two wraps and the encoder writes behind the buffer, which is undefined;
\* the model follows the thread up to there
EncOverrun == sbc_state.enc_buffer_cnt > sbc_state.enc_buffer_size

\* io_thread_sco, the SCO socket is readable: the bytes read are dropped
\* (the microphone PCM is not open), then encoded data is written and the
\* PCM is polled again if a frame fits.  written is what write() returns.
MsbcBtReadWith(read_ok, written) ==
    /\ sbc_state.enc_buffer_size > 0
    /\ ~EncOverrun
    /\ IF ~read_ok
       THEN UNCHANGED <<sbc_state, pfds2_events, sco_stream>>
       ELSE LET w == iothread_write_encoded_data(
                        [sbc_state EXCEPT !.dec_buffer_cnt = 0],
                        ScoWriteLen, written)
            IN  /\ sbc_state' = w.sbc
                /\ sco_stream' = sco_stream \o w.written
                /\ pfds2_events' = IF HasRoom(w.sbc) THEN TRUE ELSE pfds2_events
    /\ short_writes' = IF read_ok /\ 0 < Len(sco_stream') - Len(sco_stream)
                          /\ Len(sco_stream') - Len(sco_stream) < ScoWriteLen
                       THEN short_writes + 1 ELSE short_writes
    /\ UNCHANGED <<wvars, rvars, pvars, fvars, frame_at, h2_bytes, spk_bytes>>

\* the SCO socket takes a packet whole or not at all
MsbcBtRead ==
    \E read_ok \in BOOLEAN, written \in {-1, ScoWriteLen} :
        MsbcBtReadWith(read_ok, written)

\* a write() that returns less than it was given
PartialWrites == {3}

\* how many such writes a run has
MaxShortWrites == 1

MsbcBtReadPartial ==
    /\ sbc_state.enc_buffer_cnt >= ScoWriteLen
    /\ short_writes < MaxShortWrites
    /\ \E written \in PartialWrites : MsbcBtReadWith(TRUE, written)

\* io_thread_sco, an event while the speaker PCM is open: the SCO link is
\* acquired and iothread_initialize_msbc runs again on the same sbc_state;
\* if it fails the thread ends
MsbcEvent ==
    /\ sbc_state.enc_buffer_size > 0
    /\ ~EncOverrun
    /\ \E init_ok \in BOOLEAN :
        sbc_state' = IF init_ok THEN SbcStateInit(sbc_state) ELSE SbcStateNone
    /\ sco_stream' = <<>>
    /\ frame_at' = <<>>
    /\ spk_bytes' = 0
    /\ UNCHANGED <<wvars, rvars, pvars, fvars, pfds2_events, h2_bytes,
                   short_writes>>

\* io_thread_sco, the speaker PCM is readable: read what fits, encode
MsbcPcmRead ==
    /\ sbc_state.enc_buffer_size > 0
    /\ ~EncOverrun
    /\ pfds2_events
    /\ Len(h2_bytes) < MaxFrames
    /\ \E len \in {-1, 0, 120, MSBC_PCM_LEN, 2 * MSBC_PCM_LEN, 4 * MSBC_PCM_LEN},
          fail_at \in {0, 1, 2} :
        IF len = -1
        THEN UNCHANGED <<sbc_state, pfds2_events, frame_at, h2_bytes, spk_bytes>>
        ELSE /\ len <= sbc_state.enc_pcm_buffer_size - sbc_state.enc_pcm_buffer_cnt
             /\ spk_bytes' = spk_bytes + len
             /\ LET e == iothread_encode_msbc_frames(
                            [sbc_state EXCEPT !.enc_pcm_buffer_cnt = @ + len], fail_at)
                IN  /\ sbc_state' = e.sbc
                    /\ frame_at' = frame_at \o
                            [i \in 1..Len(e.appended) |->
                                Len(sco_stream) + e.appended[i]]
                    /\ h2_bytes' = h2_bytes \o
                            [i \in 1..Len(e.appended) |->
                                e.sbc.enc_buffer[e.appended[i] + 2]]
                    /\ pfds2_events' = FALSE
    /\ UNCHANGED <<wvars, rvars, pvars, fvars, sco_stream, short_writes>>

InitMsbc == WorkerIdle /\ RtpOff /\ MsbcInit /\ AtOff /\ PcmOff

NextMsbc ==
    \/ MsbcBtRead
    \/ MsbcEvent
    \/ MsbcPcmRead

SpecMsbc == InitMsbc /\ [][NextMsbc]_vars

\* the SCO link is synchronous: while the thread runs, a wake-up for a
\* readable SCO socket whose read succeeds and whose 24-byte write the
\* socket takes comes again and again
SpecMsbcLive ==
    InitMsbc /\ [][NextMsbc]_vars
    /\ WF_vars(MsbcBtReadWith(TRUE, ScoWriteLen))

\* the SCO reads, the speaker PCM reads and the writes of the thread between
\* two events, on a socket whose write() may take part of a packet
NextMsbcPartial ==
    \/ MsbcBtRead
    \/ MsbcBtReadPartial
    \/ MsbcPcmRead

SpecMsbcPartial == InitMsbc /\ [][NextMsbcPartial]_vars

\* the byte stream of the SCO link: what was written, then what is buffered
ScoBytes == sco_stream \o SubSeq(sbc_state.enc_buffer, 1, sbc_state.enc_buffer_cnt)

\* frame i of the stream starts with a header and the mSBC sync word
H2FrameAt(i) ==
    /\ ScoBytes[frame_at[i] + 1] = SCO_H2_HDR_0
    /\ ScoBytes[frame_at[i] + 2] \in {8, 56, 200, 248}
    /\ ScoBytes[frame_at[i] + 3] = MSBC_SYNC
    /\ SubSeq(ScoBytes, frame_at[i] + 3, frame_at[i] + 59) = sbc_encode_msbc

\* C10 as claimed: every mSBC frame appended to the encoded output occupies
\* exactly 59 bytes of the byte stream sent on SCO: 0x01, one of 0x08, 0x38,
\* 0xC8, 0xF8, then 0xAD and the other 56 payload bytes, the next frame's 0x01
\* following at offset 59.
C10_FrameIs59Bytes ==
    \A i \in 1..Len(frame_at) :
        /\ H2FrameAt(i)
        /\ i < Len(frame_at) => frame_at[i + 1] = frame_at[i] + 59
        /\ i = Len(frame_at) => Len(ScoBytes) = frame_at[i] + 59

\* C10 amended: every mSBC frame appended to the encoded output occupies
\* exactly 60 bytes of the byte stream sent on SCO: 0x01, one of 0x08, 0x38,
\* 0xC8, 0xF8, then the 57 payload bytes beginning with 0xAD, then one
\* padding byte the encoder does not write; the next frame's 0x01 follows at
\* offset 60.
C10_FrameIs60Bytes ==
    \A i \in 1..Len(frame_at) :
        /\ H2FrameAt(i)
        /\ i < Len(frame_at) => frame_at[i + 1] = frame_at[i] + 60
        /\ i = Len(frame_at) => Len(ScoBytes) = frame_at[i] + 60

\* C10 witness: four frames appended, the first already sent in full, the
\* fourth beginning at offset 180 of the stream.
C10_Witness ==
    /\ Len(frame_at) = 4
    /\ frame_at[4] = 180
    /\ Len(sco_stream) >= 72
    /\ ScoBytes[181] = 1 /\ ScoBytes[182] = 248 /\ ScoBytes[183] = 173

\* the H2 byte that follows b in the cycle 0x08, 0x38, 0xC8, 0xF8
NextH2(b) ==
    CASE b = 8 -> 56 [] b = 56 -> 200 [] b = 200 -> 248 [] OTHER -> 8

\* C11 as claimed: over all the mSBC frames one SCO thread encodes, also
\* across events that run the mSBC initialisation again, byte 1 of successive
\* frames cycles 0x08, 0x38, 0xC8, 0xF8, 0x08, ... without a skip or restart.
C11_H2CycleAcrossInit ==
    /\ Len(h2_bytes) > 0 => h2_bytes[1] = 8
    /\ \A i \in 1..(Len(h2_bytes) - 1) : h2_bytes[i + 1] = NextH2(h2_bytes[i])

C36_WriteTakesPrefix ==
    [][LET n   == Len(sco_stream') - Len(sco_stream)
           cnt == sbc_state.enc_buffer_cnt
       IN  /\ n \in 0..ScoWriteLen
           /\ cnt < ScoWriteLen => n = 0
           /\ (n = 0 /\ frame_at' = frame_at) =>
                 /\ sbc_state'.enc_buffer = sbc_state.enc_buffer
                 /\ sbc_state'.enc_buffer_cnt = cnt
           /\ n > 0 =>
                 /\ sco_stream' = sco_stream \o SubSeq(sbc_state.enc_buffer, 1, n)
                 /\ sbc_state'.enc_buffer_cnt = cnt - n
                 /\ SubSeq(sbc_state'.enc_buffer, 1, cnt - n)
                       = SubSeq(sbc_state.enc_buffer, n + 1, cnt)
                 /\ ScoBytes' = ScoBytes]_vars

\* C36: the socket has taken a whole packet and a part of one, and the
\* frame whose head was sent goes on in enc_buffer where the write stopped
C36_Witness ==
    /\ short_writes = 1
    /\ Len(sco_stream) = ScoWriteLen + 3
    /\ sco_stream[1] = SCO_H2_HDR_0 /\ sco_stream[3] = MSBC_SYNC
    /\ sbc_state.enc_buffer_cnt = sizeof_msbc_frame - ScoWriteLen - 3
    /\ SubSeq(ScoBytes, 3, 59) = sbc_encode_msbc

\* C38 as claimed: in every reachable state of the sbc_state, for any
\* sequence of SCO reads, speaker PCM reads, encodes and whole or partial
\* SCO writes, dec_buffer_cnt <= dec_buffer_size, enc_buffer_cnt <=
\* enc_buffer_size and enc_pcm_buffer_cnt <= enc_pcm_buffer_size, and every
\* frame the encoder appended lies entirely inside enc_buffer.
C38_CountsWithinBuffers ==
    sbc_state.enc_buffer_size > 0 =>
        /\ sbc_state.dec_buffer_cnt <= sbc_state.dec_buffer_size
        /\ sbc_state.enc_buffer_cnt <= sbc_state.enc_buffer_size
        /\ sbc_state.enc_pcm_buffer_cnt <= sbc_state.enc_pcm_buffer_size
        /\ \A i \in 1..Len(frame_at) :
              frame_at[i] + sizeof_msbc_frame - Len(sco_stream)
                  <= sbc_state.enc_buffer_size

-----------------------------------------------------------------------------
(* Claims C14 to C20: the RFCOMM thread (Spec). *)

\* what the last pass of the RFCOMM loop put on the socket, write by write
Written == [i \in 1..Len(wire) |-> io_thread_write_at_response(wire[i])]

\* C14: on +BRSF with the HF features h the RFCOMM thread replies
\* +BRSF: <n>, where bit 6 of n is set for every h, bit 9 of n is set exactly
\* when mSBC is built in and bit 7 of h is set, and no other bit of n is set.
C14_BrsfFeatureBits ==
    (kind = "rfcomm" /\ last = "+BRSF") =>
        /\ Len(wire) >= 1 /\ wire[1][1] = "+BRSF: "
        /\ \A b \in 0..30 :
             BitSet(wire[1][2], 2 ^ b) <=>
                \/ b = 6
                \/ b = 9 /\ enable_msbc /\ BitSet(sco.hf_features, 2 ^ 7)

\* C14: +BRSF=128 was answered by a build with mSBC, and +BRSF=128 by a build
\* without
C14_Witness ==
    /\ kind = "rfcomm" /\ last = "+BRSF" /\ sco.hf_features = 128
    /\ wire[1] = ResponseNum("+BRSF: ", IF enable_msbc THEN 576 ELSE 64)

\* C15 as claimed: with mSBC built in, AT+BRSF=768 is answered by
\* \r\n+BRSF: 576\r\n.
C15_Brsf768Replies576 ==
    (kind = "rfcomm" /\ last = "+BRSF" /\ enable_msbc /\ sco.hf_features = 768) =>
        Written[1] = <<"\r\n", "+BRSF: ", 576, "\r\n">>

\* C15 amended: with mSBC built in, AT+BRSF=768 is answered by
\* \r\n+BRSF: 64\r\n (bit 7 of 768 is clear), and AT+BRSF=128 by
\* \r\n+BRSF: 576\r\n.
C15_Brsf768Replies64 ==
    (kind = "rfcomm" /\ last = "+BRSF" /\ enable_msbc) =>
        /\ sco.hf_features = 768 => Written[1] = <<"\r\n", "+BRSF: ", 64, "\r\n">>
        /\ sco.hf_features = 128 => Written[1] = <<"\r\n", "+BRSF: ", 576, "\r\n">>

\* C15: a build with mSBC has answered +BRSF=768
C15_Witness ==
    /\ kind = "rfcomm" /\ last = "+BRSF" /\ enable_msbc /\ sco.hf_features = 768
    /\ Len(wire) = 2

\* a +BRSF that forces CVSD: mSBC is not built in, or bit 7 of the HF
\* features is clear
Forcing(at) ==
    at.command = "+BRSF" /\ ~(enable_msbc /\ BitSet(atoi(at.value), 2 ^ 7))

\* a +BAC of type SET that lists codec id 2
Lists2(at) ==
    /\ at.command = "+BAC" /\ at.type = "SET"
    /\ \E i \in 1..Len(at.value) : at.value[i] = 2

\* C16, step by step: the codec is CVSD when the RFCOMM thread has started;
\* a +BRSF that forces CVSD makes it CVSD, a +BAC of type SET that lists
\* codec id 2 makes it mSBC, and every other +BRSF and +BAC leaves it as it
\* is.  Hence it is mSBC exactly when such a +BAC came after the last forcing
\* +BRSF and after the start.
C16_CodecSelection ==
    [][/\ (kind = "rfcomm" /\ last' = "start") => sco'.codec = SCO_CODEC_CVSD
       /\ \A at \in AtInputs :
            (at.command \in {"+BRSF", "+BAC"} /\ last' = at.command /\ RfcommHandle(at)) =>
                sco'.codec = IF Forcing(at) THEN SCO_CODEC_CVSD
                             ELSE IF Lists2(at) THEN SCO_CODEC_MSBC
                             ELSE sco.codec]_vars

\* C16: mSBC is selected, by a +BAC=1,2 that came after a forcing +BRSF=768
C16_Witness ==
    /\ kind = "rfcomm" /\ last = "+BAC"
    /\ sco.hf_features = 768 /\ sco.codec = SCO_CODEC_MSBC

\* C17: on +CMER of type SET the RFCOMM thread writes OK first, then
\* +BCS: <codec> exactly when the selected codec is not CVSD, and nothing
\* after that.
C17_CmerOkThenBcs ==
    [][\A at \in AtInputs :
          (at.command = "+CMER" /\ at.type = "SET" /\ last' = at.command /\ RfcommHandle(at)) =>
              /\ wire'[1] = Response("OK")
              /\ Len(wire') = IF sco.codec # SCO_CODEC_CVSD THEN 2 ELSE 1
              /\ Len(wire') = 2 => wire'[2] = ResponseNum("+BCS: ", sco.codec)]_vars

\* C17: +CMER=... was answered while mSBC was selected
C17_Witness ==
    /\ kind = "rfcomm" /\ last = "+CMER" /\ sco.codec = SCO_CODEC_MSBC
    /\ Len(wire) = 2

\* the commands of C18
NoOps == {"RING", "+CKPD", "+BTRH", "+NREC", "+CCWA", "+BIA"}

\* a pass of the RFCOMM loop that changes nothing of the transport, the
\* paired SCO, the device and the gains it remembers
NoStateChange == UNCHANGED <<t, a2dp, sco, device, lv>>

\* C18 as claimed: RING, +CKPD=200, +BTRH, +NREC, +CCWA and +BIA are answered
\* by exactly OK and change no state, whatever the type of the command.
C18_NoOpsAnyType ==
    [][\A at \in AtInputs :
          (at.command \in NoOps /\ last' = at.command /\ RfcommHandle(at)) =>
              wire' = <<Response("OK")>> /\ NoStateChange]_vars

\* C18 amended: RING and +CKPD=200 of every type, +BTRH of type GET, and
\* +NREC, +CCWA and +BIA of type SET are answered by exactly OK; +BTRH,
\* +NREC, +CCWA and +BIA of every other type are answered by exactly ERROR;
\* none of them changes any state.
C18_NoOpsByType ==
    [][\A at \in AtInputs :
          (at.command \in NoOps /\ last' = at.command /\ RfcommHandle(at)) =>
              /\ wire' = IF \/ at.command \in {"RING", "+CKPD"}
                            \/ at.command = "+BTRH" /\ at.type = "GET"
                            \/ at.command \in {"+NREC", "+CCWA", "+BIA"}
                               /\ at.type = "SET"
                         THEN <<Response("OK")>>
                         ELSE <<Response("ERROR")>>
              /\ NoStateChange]_vars

\* C18: +BTRH? was answered by OK
C18_Witness ==
    /\ kind = "rfcomm" /\ last = "+BTRH" /\ pc = "loop"
    /\ wire = <<Response("OK")>>

\* the names of the dispatch table
DispatchTable ==
    {"RING", "+CKPD", "+VGM", "+VGS", "+IPHONEACCEV", "+XAPL", "+BRSF", "+BAC",
     "+CIND", "+CMER", "+BCS", "+BTRH", "+NREC", "+CCWA", "+BIA", "+CHLD"}

\* C19: a parsed command whose name is not in the dispatch table is answered
\* by one write of \r\nERROR\r\n, changes no state, and leaves the RFCOMM
\* thread in its loop.
C19_UnknownCommand ==
    [][\A at \in AtInputs :
          (at.command \notin DispatchTable /\ last' = at.command /\ RfcommHandle(at)) =>
              /\ Written' = << <<"\r\n", "ERROR", -1, "\r\n">> >>
              /\ NoStateChange
              /\ pc' = "loop"]_vars

\* C19: +FOO? was answered and the thread is in its loop
C19_Witness ==
    /\ kind = "rfcomm" /\ last = "+FOO" /\ pc = "loop"
    /\ wire = <<Response("ERROR")>>

\* C20 as claimed: on an event the RFCOMM thread writes +VGM=<n> exactly when
\* the microphone gain of the paired SCO differs from the one it remembers,
\* with n the new microphone gain, and +VGS=<n> exactly when the speaker gain
\* differs, with n the new speaker gain.
C20_EventGains ==
    [][(kind = "rfcomm" /\ last' = "event") =>
          wire' = (IF lv.mic_gain # sco.mic_gain
                   THEN <<ResponseNum("+VGM=", sco.mic_gain)>> ELSE <<>>)
                  \o (IF lv.spk_gain # sco.spk_gain
                      THEN <<ResponseNum("+VGS=", sco.spk_gain)>> ELSE <<>>)]_vars

-----------------------------------------------------------------------------
(* Claims C23, C24, C26: the end of the connection (Spec). *)

\* C23: when a read on the BT socket returns 0, a sink thread sets the BT
\* descriptor of the transport to -1 without opening or writing the PCM and
\* goes to its exit; the next thing it does is to run its cleanup handlers,
\* so that the release callback finds the descriptor at -1, and to end.
C23_SinkBtClosed ==
    [][/\ (kind \in SinkKinds /\ last' = "bt_closed") =>
            /\ t'.bt_fd = NOFD /\ pc' = "fail"
            /\ a2dp' = a2dp /\ release_calls' = release_calls
       /\ (kind \in SinkKinds /\ last = "bt_closed") =>
            /\ t.bt_fd = NOFD /\ pc' = "done"
            /\ release_calls' = release_calls + (IF t.release THEN 1 ELSE 0)]_vars

\* C23: a sink thread has ended after the BT socket was closed by the peer
C23_Witness ==
    /\ kind \in SinkKinds /\ pc = "done" /\ last = "exit"
    /\ t.bt_fd = NOFD /\ allocs["codec"] = 1 /\ release_calls = 1

\* C24: when a read on the RFCOMM socket (RFCOMM thread) or on the SCO socket
\* (SCO thread) returns 0 because the peer closed the connection, the thread
\* leaves its loop for the release of the transport and its exit; it does not
\* go back to polling the closed socket.
C24_PeerClosedExits ==
    [][(kind \in {"rfcomm", "sco"} /\ last' = "peer_closed") => pc' = "fail"]_vars

\* C26: in the A2DP source threads a write to the BT socket that fails with
\* ECONNRESET or ENOTCONN ends the thread, and no packet is written after it;
\* a write that fails with any other error leaves the thread in its loop,
\* where it goes on encoding and writing.
C26_WriteErrors ==
    [][/\ Len(packets') > Len(packets) =>
            LET p == packets'[Len(packets')]
            IN  /\ p.errno \in {"ECONNRESET", "ENOTCONN"} => src_pc' = "done"
                /\ p.errno = "error" => src_pc' \in {"loop", "encode"}
       /\ src_pc = "done" => packets' = packets /\ src_pc' = "done"]_vars

C26_Witness ==
    /\ Len(packets) = 3 /\ src_pc = "done"
    /\ packets[1].errno = "error" /\ packets[2].sent
    /\ packets[3].errno = "ENOTCONN"

\* C27: in the A2DP source threads, when the encoder reports an error for a
\* block of PCM input, the block is dropped and the encoding loop of the
\* current PCM read ends: the thread is back at its poll (or has ended).
C27_EncoderErrorDropsBlock ==
    [][(src_pc = "encode" /\ enc_err') =>
            /\ src_pc' \in {"loop", "done"}
            /\ input_len' < input_len]_vars

\* C29: in the SBC source thread the bytes sbc_encode has consumed are, in
\* order and once each, the bytes read from the PCM pipe, up to those still
\* waiting in in_buffer; what waits in in_buffer is the tail of what was
\* read, and at the poll it lies at the head of in_buffer and the next read
\* asks for exactly the rest of in_buffer.  (Bytes are named by their
\* position in the pipe; io_thread_scale_pcm changes values in place.)
C29_PcmOrderKept ==
    src.codec = "sbc" =>
        LET buf  == pcm_in.in_buffer
            from == pcm_in.pos - input_len
        IN  /\ pcm_in.encoded = RunsAppend(<<>>, <<0, from>>)
            /\ RunsSlice(buf, RunsSize(buf) - input_len, input_len)
                    = RunsAppend(<<>>, <<from, pcm_in.pos>>)
            /\ src_pc = "loop" =>
                    /\ RunsSize(buf) = input_len
                    /\ 2 * pcm_in.in_samples = SbcInBufferSize(src) - input_len

C29_Witness ==
    /\ src.codec = "sbc" /\ src_pc = "encode" /\ ~enc_err
    /\ pcm_in.pos = 2 * SbcInBufferSize(src)
    /\ Len(packets) = 3 /\ input_len > 0
    /\ pcm_in.encoded = <<<<0, pcm_in.pos - input_len>>>>

\* C28: in the mSBC encoding path a read of the speaker PCM that fails
\* changes neither enc_pcm_buffer_cnt nor enc_buffer_cnt, and after every
\* call, also one in which the encoder reported an error, each 240-byte block
\* that was encoded has been removed from the PCM input buffer: the bytes read
\* from the speaker PCM are those of the frames encoded, once each, and those
\* still in the buffer.
C28_MsbcBuffersConsistent ==
    sbc_state.enc_buffer_size > 0 =>
        spk_bytes = MSBC_PCM_LEN * Len(frame_at) + sbc_state.enc_pcm_buffer_cnt

\* C33: after the SCO thread has handled an event, if the speaker and the
\* microphone PCM descriptors are both -1 the SCO link has been released
\* and the frame counter of the pacer is 0, otherwise the SCO link has been
\* acquired and its socket is non-blocking; and no other step of the running
\* thread takes or gives up the link, so that the link is held exactly if
\* one of the two PCMs was open at the last event.
C33_ScoHeldWhilePcmOpen ==
    [][kind = "sco" /\ pc = "loop" =>
         IF last' = "event"
         THEN IF sco'.spk_pcm_fd = NOFD /\ sco'.mic_pcm_fd = NOFD
              THEN t'.bt_fd = NOFD /\ lv'.io_sync_frames = 0
              ELSE t'.bt_fd = FD /\ lv'.bt_nonblock
         ELSE t'.bt_fd = t.bt_fd]_vars

\* C33: the link was taken at an event with only the microphone PCM open,
\* the speaker PCM never having been opened
C33_Witness ==
    /\ kind = "sco" /\ pc = "loop" /\ last = "event"
    /\ sco.spk_pcm_fd = NOFD /\ sco.mic_pcm_fd = FD
    /\ t.bt_fd = FD /\ lv.bt_nonblock

\* C37: however the codec selection of the RFCOMM thread (+BRSF, +BAC write
\* the codec of the paired SCO transport) interleaves with the events and
\* the wake-ups of the SCO thread, whenever the SCO thread takes the mSBC
\* branch because the SCO socket or the speaker PCM is readable, the
\* sbc_state has been allocated and initialised by an event before.
C37_MsbcStateBeforeUse ==
    [][(/\ kind = "sco" /\ pc = "loop"
        /\ last' \in {"bt_read", "peer_closed", "pcm_read"}
        /\ enable_msbc /\ sco.codec = SCO_CODEC_MSBC) => lv.sbc # NULL]_vars

(***************************************************************************)
(* at_parse (SpecAt).                                                      *)
(*                                                                         *)
(* A string is a sequence of characters, a character a string of length 1. *)
(* The arrays command[16] and value[64] of struct at_command lie one after *)
(* the other and are one sequence of 80 cells; a cell holds a character or *)
(* NUL.                                                                    *)
(***************************************************************************)

AT_MAX_CMD_SIZE == 16
AT_MAX_VALUE_SIZE == 64

NUL == "NUL"

isspace(c) == c \in {" ", "\t", "\r", "\n"}

\* n times the character c
Rep(c, n) == [i \in 1..n |-> c]

\* the C string that begins at offset at (from 0) of mem
CString(mem, at) ==
    LET ends == { i \in (at + 1)..Len(mem) : mem[i] = NUL }
        stop == IF ends = {} THEN Len(mem) + 1
                ELSE CHOOSE i \in ends : \A j \in ends : i <= j
    IN  SubSeq(mem, at + 1, stop - 1)

\* where c is first found in txt, 0 if nowhere: strstr(s, "c")
Find(txt, c) ==
    LET hits == { i \in 1..Len(txt) : txt[i] = c }
    IN  IF hits = {} THEN 0 ELSE CHOOSE i \in hits : \A j \in hits : i <= j

\* str without the leading and the trailing whitespace
Trim(str) ==
    LET solid == { i \in 1..Len(str) : ~isspace(str[i]) }
    IN  IF solid = {} THEN <<>>
        ELSE SubSeq(str, CHOOSE i \in solid : \A j \in solid : i <= j,
                         CHOOSE i \in solid : \A j \in solid : i >= j)

\* strncasecmp(s, "AT", 2) == 0
StartsWithAT(txt) ==
    Len(txt) >= 2 /\ txt[1] \in {"A", "a"} /\ txt[2] \in {"T", "t"}

\* memset(cmd->command, 0, ...); memset(cmd->value, 0, ...)
ClearStruct_Keep(mem) == mem

ClearStruct(mem) == [i \in 1..Len(mem) |-> NUL]

\* strncpy(mem + at, src, n): n cells written, NUL after the end of from; what
\* goes past the struct is not kept
strncpy(mem, at, from, n) ==
    [i \in 1..Len(mem) |->
        IF i > at /\ i <= at + n
        THEN (IF i - at <= Len(from) THEN from[i - at] ELSE NUL)
        ELSE mem[i]]

\* at_parse(str, cmd): the value returned and the struct left behind.  A copy
\* of more than 16 bytes into command[] is undefined: the build either
\* writes on into value[] or, with a checked strncpy, aborts the process.
at_parse(str, cmd, checked) ==
    LET mem0     == ClearStruct(cmd.mem)
        s        == Trim(str)
        equal    == Find(s, "=")
        question == Find(s, "?")
        name(to) == SubSeq(s, 3, to - 1)
    IN  IF ~StartsWithAT(s)
        THEN [ret |-> "-1", cmd |-> [type |-> cmd.type, mem |-> mem0]]
        ELSE IF equal # 0
        THEN IF Len(name(equal)) > AT_MAX_CMD_SIZE /\ checked
             THEN [ret |-> "abort", cmd |-> [type |-> cmd.type, mem |-> mem0]]
             ELSE LET mem1 == strncpy(mem0, 0, name(equal), Len(name(equal)))
                  IN  IF equal < Len(s) /\ s[equal + 1] = "?"
                      THEN [ret |-> "0", cmd |-> [type |-> "TEST", mem |-> mem1]]
                      ELSE [ret |-> "0",
                            cmd |-> [type |-> "SET",
                                     mem  |-> strncpy(mem1, AT_MAX_CMD_SIZE,
                                                SubSeq(s, equal + 1, Len(s)),
                                                AT_MAX_VALUE_SIZE - 1)]]
        ELSE IF question # 0
        THEN IF Len(name(question)) > AT_MAX_CMD_SIZE /\ checked
             THEN [ret |-> "abort", cmd |-> [type |-> "GET", mem |-> mem0]]
             ELSE [ret |-> "0",
                   cmd |-> [type |-> "GET",
                            mem  |-> strncpy(mem0, 0, name(question),
                                             Len(name(question)))]]
        ELSE [ret |-> "-1", cmd |-> [type |-> "GET", mem |-> mem0]]

\* command names: short, of 15, 16 and 17 characters
AtNames ==
    { <<>>, <<"+", "V", "G", "M">>, <<"+">> \o Rep("X", 14),
      <<"+">> \o Rep("X", 15), <<"+">> \o Rep("X", 16) }

\* values: empty, short, of 63 and of 70 characters
AtValues == { <<>>, <<"7">>, <<"1", ",", "2">>, Rep("9", 63), Rep("9", 70) }

\* the strings of the form AT<CMD>=<v>, AT<CMD>=? and AT<CMD>?
AtWellFormed ==
    { [str  |-> lead \o prefix \o name \o tail.text \o trail,
       form |-> tail.type, CMD |-> name, v |-> tail.v] :
        lead \in {<<>>, <<" ">>},
        prefix \in {<<"A", "T">>, <<"a", "t">>, <<"A", "t">>},
        name \in AtNames,
        tail \in { [type |-> "SET", text |-> <<"=">> \o v, v |-> v] :
                        v \in AtValues }
                 \cup { [type |-> "TEST", text |-> <<"=", "?">>, v |-> <<>>],
                        [type |-> "GET", text |-> <<"?">>, v |-> <<>>] },
        trail \in {<<>>, <<"\r">>} }

\* strings that are no AT command
AtMalformed ==
    { [str |-> str, form |-> "none", CMD |-> <<>>, v |-> <<>>] :
        str \in { <<>>, <<" ", "\r">>, <<"A">>, <<"O", "K", "\r">>,
                  <<"+", "V", "G", "M", "=", "7">>, <<"B", "T", "?">>,
                  <<"A", "T">>, <<"a", "t", "+", "C", "L", "C", "C", "\r">>,
                  <<" ", "A", "T", "D", "1", "2", "3">> } }

\* what a struct at_command holds before the call
AtStructs ==
    { [type |-> "SET",
       mem  |-> [i \in 1..(AT_MAX_CMD_SIZE + AT_MAX_VALUE_SIZE) |->
                    IF i = 1 THEN "+" ELSE IF i = 2 THEN "B"
                    ELSE IF i = AT_MAX_CMD_SIZE + 1 THEN "5" ELSE NUL]],
      [type |-> "TEST",
       mem  |-> [i \in 1..(AT_MAX_CMD_SIZE + AT_MAX_VALUE_SIZE) |-> NUL]] }

InitAt ==
    /\ WorkerIdle /\ RtpOff /\ MsbcOff /\ PcmOff
    /\ at_in \in AtWellFormed \cup AtMalformed
    /\ at_cmd \in AtStructs
    /\ at_ret = "none"

\* one call of at_parse
AtParse ==
    /\ at_ret = "none"
    /\ \E checked \in BOOLEAN :
        LET r == at_parse(at_in.str, at_cmd, checked)
        IN  /\ at_ret' = r.ret
            /\ at_cmd' = r.cmd
    /\ UNCHANGED <<wvars, rvars, mvars, fvars, at_in>>

NextAt == AtParse

SpecAt == InitAt /\ [][NextAt]_vars

\* command and value of a struct at_command, as C strings
CommandOf(cmd) == CString(cmd.mem, 0)
ValueOf(cmd) == CString(cmd.mem, AT_MAX_CMD_SIZE)

\* C12 as claimed: for every input AT<CMD>=<v>, AT<CMD>=? or AT<CMD>?,
\* at_parse succeeds with command = CMD, with the type that goes with the
\* form, and with value = the first 63 bytes of v for SET and the empty
\* string for TEST and GET.
C12_ParseRecovers ==
    (at_in.form # "none" /\ at_ret # "none") =>
        /\ at_ret = "0"
        /\ CommandOf(at_cmd) = at_in.CMD
        /\ at_cmd.type = at_in.form
        /\ ValueOf(at_cmd) =
              SubSeq(at_in.v, 1, Min(Len(at_in.v), AT_MAX_VALUE_SIZE - 1))

\* C39 as claimed: for every RFCOMM input of up to 64 bytes at_parse writes
\* at most 15 characters and a terminator into command[16] and at most 63
\* characters and a terminator into value[64]: the call is not aborted,
\* the last cell of command and the last cell of value hold NUL, and for
\* TEST and GET nothing is written into value.
C39_FieldsBounded ==
    (Len(at_in.str) <= AT_MAX_VALUE_SIZE /\ at_ret # "none") =>
        /\ at_ret # "abort"
        /\ at_cmd.mem[AT_MAX_CMD_SIZE] = NUL
        /\ at_cmd.mem[AT_MAX_CMD_SIZE + AT_MAX_VALUE_SIZE] = NUL
        /\ at_cmd.type \in {"TEST", "GET"} =>
              \A i \in (AT_MAX_CMD_SIZE + 1)..Len(at_cmd.mem) :
                  at_cmd.mem[i] = NUL

\* C13 as claimed: for every input that does not start with AT or that has
\* neither '=' nor '?', at_parse returns an error and leaves type, command
\* and value of the struct as they were before the call.
C13_ErrorLeavesStruct ==
    [][at_in.form = "none" => at_ret' = "-1" /\ at_cmd' = at_cmd]_vars

\* C13 amended: for every such input at_parse returns an error, command and
\* value of the struct are all zero bytes after the call, and type is GET if
\* the input starts with AT and is what it was before the call otherwise.
C13_ErrorClearsStruct ==
    [][at_in.form = "none" =>
        /\ at_ret' = "-1"
        /\ \A i \in 1..Len(at_cmd'.mem) : at_cmd'.mem[i] = NUL
        /\ at_cmd'.type = IF StartsWithAT(Trim(at_in.str)) THEN "GET"
                          ELSE at_cmd.type]_vars

\* C13: at_parse has refused a string that starts with AT and has neither
\* '=' nor '?', and one that does not start with AT
C13_Witness ==
    /\ at_in.form = "none"
    /\ at_ret = "-1"
    /\ at_in.str \in { <<"a", "t", "+", "C", "L", "C", "C", "\r">>,
                       <<"+", "V", "G", "M", "=", "7">> }

(***************************************************************************)
(* io_thread_read_pcm and io_thread_write_pcm (SpecPcm).                   *)
(*                                                                         *)
(* pcm_io is one call: size samples asked for, len bytes still to move,    *)
(* ret and errno as the last system call left them, moved the bytes moved  *)
(* so far, released whether transport_release_pcm was called, result what  *)
(* the function returned.  ret is UNSET while no system call has assigned  *)
(* it.                                                                     *)
(***************************************************************************)

MaxSamples == 3

UNSET == 99

Errnos == {"EINTR", "EBADF", "EPIPE", "EIO"}

\* the sizes asked for: the SCO thread asks for mtu_write / 2 samples, which
\* is 0 until the first SCO read has set the MTU
PcmCalls ==
    [op : {"read", "write"}, size : 0..MaxSamples, errno : {"none", "EBADF"}]

PcmStart(call) ==
    [pc |-> "loop", op |-> call.op, size |-> call.size, len |-> 2 * call.size,
     ret |-> UNSET, errno |-> call.errno, moved |-> 0, eof |-> FALSE,
     failed |-> "none", released |-> FALSE, result |-> UNSET]

InitPcm ==
    /\ WorkerIdle /\ RtpOff /\ MsbcOff /\ AtOff /\ SinkOff /\ GOff
    /\ \E call \in PcmCalls : pcm_io = PcmStart(call)

\* the end of io_thread_read_pcm, from the ret and errno the loop left
ReadReturn_NoBadf(io, ret) ==
    IF ret > 0
    THEN [io EXCEPT !.pc = "returned", !.ret = ret, !.result = io.size]
    ELSE [io EXCEPT !.pc = "returned", !.ret = ret, !.result = ret,
                    !.released = (ret = 0)]

ReadReturn(io, ret) ==
    IF ret > 0
    THEN [io EXCEPT !.pc = "returned", !.ret = ret, !.result = io.size]
    ELSE LET r == IF io.errno = "EBADF" THEN 0 ELSE ret
         IN [io EXCEPT !.pc = "returned", !.ret = r, !.result = r,
                       !.released = (r = 0)]

\* read() returns k bytes: the loop goes on, or ends when nothing is left
PcmReadData ==
    /\ pcm_io.pc = "loop" /\ pcm_io.op = "read" /\ pcm_io.len # 0
    /\ \E k \in 1..pcm_io.len :
        LET io == [pcm_io EXCEPT !.len = @ - k, !.moved = @ + k, !.ret = k]
        IN pcm_io' = IF io.len = 0 THEN ReadReturn(io, k) ELSE io
    /\ UNCHANGED <<wvars, rvars, mvars, pvars, sink, gvars>>

\* read() returns 0: the other end of the FIFO was closed
PcmReadEof ==
    /\ pcm_io.pc = "loop" /\ pcm_io.op = "read" /\ pcm_io.len # 0
    /\ pcm_io' = ReadReturn([pcm_io EXCEPT !.eof = TRUE], 0)
    /\ UNCHANGED <<wvars, rvars, mvars, pvars, sink, gvars>>

\* read() fails: EINTR is tried again, every other error ends the loop
PcmReadError ==
    /\ pcm_io.pc = "loop" /\ pcm_io.op = "read" /\ pcm_io.len # 0
    /\ \E e \in Errnos \ {"EPIPE"} :
        LET io == [pcm_io EXCEPT !.ret = -1, !.errno = e]
        IN pcm_io' = IF e = "EINTR" THEN io
                     ELSE ReadReturn([io EXCEPT !.failed = e], -1)
    /\ UNCHANGED <<wvars, rvars, mvars, pvars, sink, gvars>>

\* size is 0: the loop is not entered and ret is read as it was found, a
\* positive number, 0 or a negative number
PcmReadNothing ==
    /\ pcm_io.pc = "loop" /\ pcm_io.op = "read" /\ pcm_io.len = 0
    /\ pcm_io.ret = UNSET
    /\ \E junk \in {-1, 0, 1} : pcm_io' = ReadReturn(pcm_io, junk)
    /\ UNCHANGED <<wvars, rvars, mvars, pvars, sink, gvars>>

\* the while (len != 0) of io_thread_write_pcm after a write
WriteNext(io) ==
    IF io.len # 0 THEN io
    ELSE [io EXCEPT !.pc = "returned", !.result = io.size]

\* what io_thread_write_pcm does on EPIPE
WriteEpipe_NoRelease(io) == [io EXCEPT !.pc = "returned", !.result = 0]

WriteEpipe(io) ==
    [io EXCEPT !.pc = "returned", !.result = 0, !.released = TRUE]

\* write() takes k bytes of the len that are left (0 of 0)
PcmWriteData ==
    /\ pcm_io.pc = "loop" /\ pcm_io.op = "write"
    /\ \E k \in (IF pcm_io.len = 0 THEN {0} ELSE 1..pcm_io.len) :
        pcm_io' = WriteNext([pcm_io EXCEPT !.len = @ - k, !.moved = @ + k,
                                           !.ret = k])
    /\ UNCHANGED <<wvars, rvars, mvars, pvars, sink, gvars>>

\* write() fails: EINTR goes to the loop condition, EPIPE releases the PCM
\* and returns 0, every other error is returned
PcmWriteError ==
    /\ pcm_io.pc = "loop" /\ pcm_io.op = "write"
    /\ \E e \in Errnos \ {"EBADF"} :
        LET io == [pcm_io EXCEPT !.ret = -1, !.errno = e]
        IN pcm_io' =
             IF e = "EINTR" THEN WriteNext(io)
             ELSE IF e = "EPIPE" THEN WriteEpipe([io EXCEPT !.failed = e])
             ELSE [io EXCEPT !.failed = e, !.pc = "returned", !.result = -1]
    /\ UNCHANGED <<wvars, rvars, mvars, pvars, sink, gvars>>

NextPcm ==
    \/ PcmReadData
    \/ PcmReadEof
    \/ PcmReadError
    \/ PcmReadNothing
    \/ PcmWriteData
    \/ PcmWriteError

SpecPcm == InitPcm /\ [][NextPcm]_vars

\* C21 as claimed: io_thread_read_pcm returns the size asked for only after
\* exactly 2 * size bytes were read; it returns 0 and has released the PCM
\* when read() returned 0, also after a partial read; it returns -1 and has
\* not released the PCM on every error but EINTR; and these are all the
\* ways it returns.
C21_ReadAllOrNothing ==
    (pcm_io.op = "read" /\ pcm_io.pc = "returned") =>
        /\ pcm_io.eof => pcm_io.result = 0 /\ pcm_io.released
        /\ pcm_io.failed # "none" => pcm_io.result = -1 /\ ~pcm_io.released
        /\ (~pcm_io.eof /\ pcm_io.failed = "none") =>
              /\ pcm_io.result = pcm_io.size
              /\ pcm_io.moved = 2 * pcm_io.size
              /\ ~pcm_io.released

\* C22: io_thread_write_pcm returns the size asked for only after all
\* 2 * size bytes were written, whatever the number of interrupted and short
\* writes; on EPIPE it has released the PCM and returns 0; on every other
\* error but EINTR it returns -1 and has not released the PCM.
C22_WriteAllOrError ==
    (pcm_io.op = "write" /\ pcm_io.pc = "returned") =>
        /\ pcm_io.failed = "EPIPE" => pcm_io.result = 0 /\ pcm_io.released
        /\ pcm_io.failed \notin {"none", "EPIPE"} =>
              pcm_io.result = -1 /\ ~pcm_io.released
        /\ pcm_io.failed = "none" =>
              /\ pcm_io.result = pcm_io.size
              /\ pcm_io.moved = 2 * pcm_io.size
              /\ ~pcm_io.released

\* C22: a write of 3 samples has ended on EPIPE after a short write
C22_Witness ==
    /\ pcm_io.op = "write" /\ pcm_io.pc = "returned" /\ pcm_io.size = 3
    /\ pcm_io.failed = "EPIPE" /\ pcm_io.moved > 0 /\ pcm_io.released

(***************************************************************************)
(* The A2DP sink thread with the SBC codec, packet by packet (SpecSink).   *)
(*                                                                         *)
(* The memory at in_buffer is a sequence of cells <<tag, value>>: "H" a    *)
(* byte of the RTP header and of the SBC payload header, "S" and "B" the   *)
(* two bytes of the SBC frame with the id value, "X" a byte no frame       *)
(* starts with, "J" what malloc left there.  in_buffer_size cells belong   *)
(* to in_buffer, the cells after them to the heap behind it.               *)
(***************************************************************************)

MaxSinkPackets == 2

sink_frame_len == 2
sink_mtu_read == 17
HeapBehind == 2
SIZE_MAX1 == 65536

\* size_t arithmetic
SizeT(x) == x % SIZE_MAX1

\* the offset of the SBC payload header: &rtp_header->csrc[rtp_header->cc]
PayloadOffset(cc) == rtp_header_len + 4 * cc

\* a frame of sbc_frame_len bytes
SbcFrame(id, ok) ==
    IF ok THEN << <<"S", id>>, <<"B", id>> >> ELSE << <<"X", id>>, <<"B", id>> >>

\* the bytes of a packet: 12 bytes of header (cc and the payload type in
\* the first two), 4 bytes for each CSRC entry, the payload header with the
\* frame count, the frames
RECURSIVE FramesBytes(_, _, _)
FramesBytes(n, frames, i) ==
    IF i > Len(frames) THEN <<>>
    ELSE SbcFrame(10 * n + i, frames[i]) \o FramesBytes(n, frames, i + 1)

PacketBytes(n, pkt) ==
    SubSeq(<< <<"H", pkt.cc>>, <<"H", pkt.paytype>> >>
           \o [i \in 1..(PayloadOffset(pkt.cc) - 2) |-> <<"H", 0>>]
           \o << <<"H", pkt.frame_count>> >>
           \o FramesBytes(n, pkt.frames, 1),
           1, pkt.len)

\* the packets read from the BT socket: len bytes, of which the frames that
\* fit are there, whole or cut
SinkPackets ==
    { pkt \in [len : {5, 13, 15, 16, 17}, cc : {0, 1}, paytype : {96, 97},
               frame_count : {1, 3}, frames : [1..2 -> BOOLEAN]] :
        /\ pkt.len <= 13 => pkt.frames = <<TRUE, TRUE>> /\ pkt.frame_count = 1
        /\ pkt.cc = 1 => /\ pkt.frames = <<TRUE, TRUE>> /\ pkt.frame_count = 1
                         /\ pkt.len \in {13, 17}
        /\ pkt.len = 15 => pkt.frames[2]
        /\ pkt.paytype = 97 => pkt.frames = <<TRUE, TRUE>> }

\* what malloc left in in_buffer and behind it: nothing that decodes, or
\* bytes that look like a packet
SinkHeaps ==
    { [i \in 1..(sink_mtu_read + HeapBehind) |-> <<"J", 0>>],
      PacketBytes(0, [len |-> sink_mtu_read, cc |-> 0, paytype |-> 96,
                      frame_count |-> 3,
                      frames |-> <<TRUE, TRUE>>])
      \o SbcFrame(3, TRUE) }

SinkStart(mem) ==
    [pc |-> "loop", mem |-> mem, n |-> 0, bt_fd |-> FD,
     op |-> "start", prev |-> "none", pkt |-> [len |-> 0], written |-> <<>>,
     writes |-> 0, input_len |-> 0]

InitSink ==
    /\ WorkerIdle /\ RtpOff /\ MsbcOff /\ AtOff /\ PcmCallOff /\ GOff
    /\ \E mem \in SinkHeaps : sink = SinkStart(mem)

\* read(fd, in_buffer, in_buffer_size) returning len
ReadInto(mem, bytes) ==
    [i \in 1..Len(mem) |-> IF i <= Len(bytes) THEN bytes[i] ELSE mem[i]]

\* sbc_decode() at the byte input (from 0): the id of the frame, -1 when no
\* frame starts there
sbc_decode(mem, input) ==
    IF /\ input + sink_frame_len <= Len(mem)
       /\ mem[input + 1][1] = "S" /\ mem[input + 2][1] = "B"
       /\ mem[input + 1][2] = mem[input + 2][2]
    THEN mem[input + 1][2] ELSE -1

\* while (frames && input_len >= sbc_frame_len), with left bytes of input:
\* the frames decoded
RECURSIVE DecodeFrames_IgnoreCount(_, _, _, _)
DecodeFrames_IgnoreCount(mem, input, left, frames) ==
    IF left < sink_frame_len THEN <<>>
    ELSE LET id == sbc_decode(mem, input)
         IN IF id < 0 THEN <<>>
            ELSE <<id>> \o DecodeFrames_IgnoreCount(mem, input + sink_frame_len,
                                left - sink_frame_len, frames - 1)

RECURSIVE DecodeFrames(_, _, _, _)
DecodeFrames(mem, input, left, frames) ==
    IF frames = 0 \/ left < sink_frame_len THEN <<>>
    ELSE LET id == sbc_decode(mem, input)
         IN IF id < 0 THEN <<>>
            ELSE <<id>> \o DecodeFrames(mem, input + sink_frame_len,
                                        left - sink_frame_len, frames - 1)

\* rtp_header->paytype != 96
PaytypeOk_Any(mem) == TRUE

PaytypeOk(mem) == mem[2][2] = 96

\* size_t input_len = len - (input - in_buffer)
InputLen(len, input) == SizeT(len - input)

\* one packet: read, open the PCM, check the payload type, decode the
\* frames, write the PCM
SinkSbcPacket ==
    /\ sink.pc = "loop" /\ sink.n < MaxSinkPackets
    /\ \E pkt \in SinkPackets, open_ok \in BOOLEAN :
        LET n      == sink.n + 1
            mem    == ReadInto(sink.mem, PacketBytes(n, pkt))
            input  == PayloadOffset(mem[1][2]) + rtp_payload_sbc_len
            frames == mem[PayloadOffset(mem[1][2]) + 1][2]
            left   == InputLen(pkt.len, input)
            out    == DecodeFrames(mem, input, left, frames)
            got    == [sink EXCEPT !.mem = mem, !.n = n, !.pkt = pkt,
                                   !.prev = sink.op, !.written = <<>>]
        IN sink' =
             IF ~open_ok THEN [got EXCEPT !.op = "no_pcm"]
             ELSE IF ~PaytypeOk(mem) THEN [got EXCEPT !.op = "dropped"]
             ELSE [got EXCEPT !.op = "decoded", !.written = out,
                              !.writes = @ + 1, !.input_len = left]
    /\ UNCHANGED <<wvars, rvars, mvars, pvars, pcm_io, gvars>>

\* read() returns 0: close the socket, t->bt_fd = -1, goto fail
SinkSbcClosed ==
    /\ sink.pc = "loop"
    /\ sink' = [sink EXCEPT !.pc = "fail", !.bt_fd = NOFD, !.op = "closed",
                            !.prev = sink.op, !.written = <<>>]
    /\ UNCHANGED <<wvars, rvars, mvars, pvars, pcm_io, gvars>>

NextSink == SinkSbcPacket \/ SinkSbcClosed

SpecSink == InitSink /\ [][NextSink]_vars

\* the frames of packet n that the sink is to decode: the whole frames that
\* are in the packet, at most frame_count of them, up to the first that
\* does not decode
WholeFrames(pkt) ==
    IF pkt.len < PayloadOffset(pkt.cc) + rtp_payload_sbc_len THEN 0
    ELSE (pkt.len - PayloadOffset(pkt.cc) - rtp_payload_sbc_len)
             \div sink_frame_len

RECURSIVE GoodPrefix(_, _, _, _)
GoodPrefix(n, pkt, i, upto) ==
    IF i > upto \/ ~pkt.frames[i] THEN <<>>
    ELSE <<10 * n + i>> \o GoodPrefix(n, pkt, i + 1, upto)

ExpectedFrames(n, pkt) ==
    GoodPrefix(n, pkt, 1, Min(pkt.frame_count, WholeFrames(pkt)))

\* C25: a packet whose payload type is not 96 is dropped: no PCM is written
\* for it and the thread stays in its loop; and a packet with payload type
\* 96 and a whole header that comes after a dropped one is decoded as if
\* the dropped one had not been there.
C25_WrongPaytypeDropped ==
    [][/\ (sink'.n = sink.n + 1 /\ sink'.pkt.paytype # 96) =>
            /\ sink'.writes = sink.writes /\ sink'.written = <<>>
            /\ sink'.pc = "loop"
       /\ (sink.op = "dropped" /\ sink'.op = "decoded"
           /\ WholeFrames(sink'.pkt) > 0) =>
            sink'.written = ExpectedFrames(sink'.n, sink'.pkt)]_vars

\* C25: a packet with two frames was decoded after a packet of payload type
\* 97 was dropped
C25_Witness ==
    /\ sink.prev = "dropped" /\ sink.op = "decoded" /\ sink.n = 2
    /\ sink.written = <<21, 22>> /\ sink.writes = 1

\* C30 as claimed: for each packet the sink decodes at most frame_count
\* frames, stops when less than one frame of input is left or a frame does
\* not decode, writes only the PCM of the frames decoded from this packet,
\* and is not influenced by the packets before.
C30_PacketDecodedAlone ==
    sink.op = "decoded" => sink.written = ExpectedFrames(sink.n, sink.pkt)

\* C40 as claimed: for every packet length and every CSRC count of the RTP
\* header, the payload length the sink computes after the RTP header, the
\* CSRC entries and the payload header is not negative and not more than
\* the bytes received, so that the decoder is given no byte beyond the
\* packet.
C40_PayloadWithinPacket ==
    sink.op = "decoded" =>
        /\ sink.input_len <= sink.pkt.len
        /\ PayloadOffset(sink.pkt.cc) + rtp_payload_sbc_len + sink.input_len
               <= sink.pkt.len

(***************************************************************************)
(* The pacer of an A2DP source thread against the monotonic clock          *)
(* (SpecSync): the events, the PCM reads and the calls of                  *)
(* io_thread_time_sync of one thread.  Times are in nanoseconds.           *)
(***************************************************************************)

\* how many calls of io_thread_time_sync a run makes
MaxSyncs == 3

\* the clock moves by this much while the thread waits in poll()
TickNs == 10000000

\* transport_get_sampling(t)
PacerSamplings == {44100, 48000, 96000}

\* the PCM frames a call of io_thread_time_sync is given
PacerFrames == {0, 128, 1024}

\* struct io_sync io_sync = { .sampling = transport_get_sampling(t) }, the
\* field being a uint16_t
PacerStart(rate) ==
    [pc |-> "loop", op |-> "start", rate |-> rate,
     io_sync |-> [ts0 |-> 0, frames |-> 0, sampling |-> rate % 65536],
     clock |-> TickNs, slept |-> 0, ret |-> 0, syncs |-> 0]

InitSync ==
    /\ WorkerIdle /\ RtpOff /\ MsbcOff /\ AtOff /\ PcmCallOff /\ SinkOff
    /\ DecOff
    /\ \E rate \in PacerSamplings : pacer = PacerStart(rate)

\* the time of frames PCM frames at sampling frames a second, as ts_audio
AudioNs(sampling, frames) ==
    1000000000 * (frames \div sampling) + (1000000000 \div sampling) * (frames % sampling)

\* difftimespec(ts1, ts2, ts): the absolute difference
difftimespec(ts1, ts2) == IF ts2 >= ts1 THEN ts2 - ts1 ELSE ts1 - ts2

\* io_thread_time_sync after io_sync->frames += frames: what nanosleep is
\* asked for, 0 if it is not called
SleepNs(sync, now) ==
    LET sampling   == sync.sampling
        overframes == sampling \div 100
        frames     == IF sync.frames > overframes THEN sync.frames - overframes ELSE 0
        ts_audio   == AudioNs(sampling, frames)
        ts_clock   == difftimespec(sync.ts0, now)
    IN  IF ts_audio > ts_clock THEN ts_audio - ts_clock ELSE 0

\* if (io_sync.frames == 0) clock_gettime(CLOCK_MONOTONIC, &io_sync.ts0)
Ts0AtRead_Always(sync, now) == [sync EXCEPT !.ts0 = now]

Ts0AtRead(sync, now) == IF sync.frames = 0 THEN [sync EXCEPT !.ts0 = now] ELSE sync

\* the thread waits in poll()
PacerTick ==
    /\ pacer.pc = "loop"
    /\ pacer.clock < (MaxSyncs + 1) * TickNs
    /\ pacer' = [pacer EXCEPT !.op = "tick", !.clock = @ + TickNs]
    /\ UNCHANGED <<wvars, rvars, mvars, pvars, pcm_io, sink, dec>>

\* an event on the event fd
PacerEvent ==
    /\ pacer.pc = "loop"
    /\ pacer.op # "event"
    /\ pacer' = [pacer EXCEPT !.op = "event", !.io_sync.frames = 0]
    /\ UNCHANGED <<wvars, rvars, mvars, pvars, pcm_io, sink, dec>>

\* io_thread_read_pcm: it fails or meets the end of the pipe and the thread
\* ends, or it returns samples
PacerRead ==
    /\ pacer.pc = "loop"
    /\ pacer.syncs < MaxSyncs
    /\ \E ok \in BOOLEAN :
         pacer' = IF ok
                  THEN [pacer EXCEPT !.op = "read", !.pc = "encode",
                                     !.io_sync = Ts0AtRead(@, pacer.clock)]
                  ELSE [pacer EXCEPT !.op = "read_fail", !.pc = "done"]
    /\ UNCHANGED <<wvars, rvars, mvars, pvars, pcm_io, sink, dec>>

\* one pass of the encoding loop ends in io_thread_time_sync(&io_sync, frames)
PacerSync ==
    /\ pacer.pc = "encode"
    /\ pacer.syncs < MaxSyncs
    /\ \E frames \in PacerFrames, more \in BOOLEAN :
         LET r     == io_thread_time_sync(pacer.io_sync, frames)
             sleep == IF frames = 0 THEN 0 ELSE SleepNs(r.io_sync, pacer.clock)
         IN  pacer' = [pacer EXCEPT
                          !.op = "sync", !.io_sync = r.io_sync, !.ret = r.duration,
                          !.slept = sleep, !.clock = @ + sleep,
                          !.syncs = @ + 1,
                          !.pc = IF more THEN "encode" ELSE "loop"]
    /\ UNCHANGED <<wvars, rvars, mvars, pvars, pcm_io, sink, dec>>

NextSync ==
    \/ PacerTick
    \/ PacerEvent
    \/ PacerRead
    \/ PacerSync

SpecSync == InitSync /\ [][NextSync]_vars

\* C31: in the A2DP source threads every event sets the frame counter of the
\* pacer to 0, and ts0 is set to the clock exactly by a successful PCM read
\* that finds the counter at 0; no other step changes ts0.
C31_Ts0AtFirstRead ==
    [][/\ pacer'.op = "event" => pacer'.io_sync.frames = 0
       /\ (pacer'.op = "read" /\ pacer.io_sync.frames = 0) =>
            pacer'.io_sync.ts0 = pacer.clock
       /\ ~(pacer'.op = "read" /\ pacer.io_sync.frames = 0) =>
            pacer'.io_sync.ts0 = pacer.io_sync.ts0]_vars

\* C31: the first read after an event has moved ts0 to the clock of that
\* read, and a second read with the counter above 0 has left it there
C31_Witness ==
    /\ pacer.op = "read" /\ pacer.syncs = 2
    /\ pacer.io_sync.frames = 1024
    /\ pacer.io_sync.ts0 = 2 * TickNs /\ pacer.clock > 3 * TickNs

\* C32: io_thread_time_sync called with frames > 0 adds frames to the counter
\* and sleeps if and only if the audio time of the counter less sampling/100
\* frames, floored at 0, at the sampling rate of the transport, is more than
\* the time since ts0, and then for the difference, so that on return the
\* time since ts0 is at least that audio time; called with 0 frames it
\* returns 0 and changes neither the counter nor the clock.
C32_SleepsToAudioTime ==
    [][pacer'.op = "sync" /\ pacer'.syncs = pacer.syncs + 1 =>
         LET added  == pacer'.io_sync.frames - pacer.io_sync.frames
             ahead  == pacer.rate \div 100
             target == AudioNs(pacer.rate,
                               IF pacer'.io_sync.frames > ahead
                               THEN pacer'.io_sync.frames - ahead ELSE 0)
             since  == pacer.clock - pacer.io_sync.ts0
         IN  IF pacer'.ret = 0
             THEN added = 0 /\ pacer'.clock = pacer.clock
             ELSE /\ added \in PacerFrames \ {0}
                  /\ pacer'.slept > 0 <=> target > since
                  /\ pacer'.slept > 0 => pacer'.slept = target - since
                  /\ pacer'.clock = pacer.clock + pacer'.slept
                  /\ pacer'.clock - pacer'.io_sync.ts0 >= target]_vars

(***************************************************************************)
(* The decoder half of the mSBC state in io_thread_sco (SpecDec): the SCO  *)
(* socket is readable and the microphone PCM is open.  dec_buffer is a     *)
(* sequence of bytes; offsets count from 0 as in the C code.               *)
(***************************************************************************)

\* how many reads of the SCO socket a run has
MaxReads == 4

\* sizeof(sbc->dec_buffer)
dec_buffer_size == SCO_H2_FRAME_LEN * 2

\* what the peer sends: a frame with its H2 header
GoodFrame == <<SCO_H2_HDR_0, 8>> \o msbc_zero

\* a frame whose header and sync word are right and whose payload is not
BadFrame == <<SCO_H2_HDR_0, 8, MSBC_SYNC>> \o [i \in 1..(MSBC_FRAME_LEN - 1) |-> 255]

\* what one read() of the SCO socket returns: a frame, a frame and its
\* padding byte, a damaged frame, bytes of no frame, the head and the rest
\* of a frame
ScoChunks ==
    { GoodFrame, GoodFrame \o <<0>>, BadFrame, <<0>>,
      <<MSBC_SYNC, SCO_H2_HDR_0, 0>>,
      SubSeq(GoodFrame, 1, 24), SubSeq(GoodFrame, 25, SCO_H2_FRAME_LEN) }

\* sbc_decode(&sbc->dec, p + 2, sbc->sbc_frame_len, ...): the bytes of
\* input it consumed, -1 if they are no frame
sbc_decode_msbc(bytes) == IF bytes = msbc_zero THEN MSBC_FRAME_LEN ELSE -1

\* p[0] == SCO_H2_HDR_0 && p[2] == MSBC_SYNC, p being at offset at of buf
HeaderAt_FirstByteOnly(buf, at) == buf[at + 1] = SCO_H2_HDR_0

HeaderAt(buf, at) == buf[at + 1] = SCO_H2_HDR_0 /\ buf[at + 3] = MSBC_SYNC

\* the loop of iothread_find_and_decode_msbc with p at offset at and
\* bytes_left bytes from there; trace notes what was done at each offset
RECURSIVE FindLoop(_, _, _, _)
FindLoop(buf, at, bytes_left, trace) ==
    IF bytes_left >= SCO_H2_HDR_LEN + MSBC_FRAME_LEN
    THEN IF HeaderAt(buf, at)
         THEN LET from == at + SCO_H2_HDR_LEN
                  len  == sbc_decode_msbc(SubSeq(buf, from + 1,
                                                 from + MSBC_FRAME_LEN))
              IN  IF len < 0
                  THEN [err |-> TRUE, at |-> at, bytes_left |-> bytes_left,
                        trace |-> Append(trace, [at |-> at, did |-> "error",
                                                 from |-> from, len |-> len])]
                  ELSE FindLoop(buf, at + len + SCO_H2_HDR_LEN,
                                bytes_left - (len + SCO_H2_HDR_LEN),
                                Append(trace, [at |-> at, did |-> "frame",
                                               from |-> from, len |-> len]))
         ELSE FindLoop(buf, at + 1, bytes_left - 1,
                       Append(trace, [at |-> at, did |-> "skip",
                                      from |-> at, len |-> 0]))
    ELSE [err |-> FALSE, at |-> at, bytes_left |-> bytes_left, trace |-> trace]

\* iothread_find_and_decode_msbc: the buffer, the count and the trace
iothread_find_and_decode_msbc(buf, cnt) ==
    LET r == FindLoop(buf, 0, cnt, <<>>)
    IN  IF r.err
        THEN [buf |-> buf, cnt |-> 0, trace |-> r.trace, err |-> TRUE]
        ELSE [buf |-> MoveDown(buf, r.at, r.bytes_left), cnt |-> r.bytes_left,
              trace |-> r.trace, err |-> FALSE]

\* iothread_initialize_msbc: memset(sbc, 0, sizeof(*sbc))
DecStart ==
    [pc |-> "loop", op |-> "init", reads |-> 0,
     buf |-> [i \in 1..dec_buffer_size |-> 0], cnt |-> 0,
     given |-> [buf |-> <<>>, cnt |-> 0], trace |-> <<>>, err |-> FALSE]

InitDec ==
    /\ WorkerIdle /\ RtpOff /\ MsbcOff /\ AtOff /\ PcmCallOff /\ SinkOff
    /\ PacerOff
    /\ dec = DecStart

\* the SCO socket is readable: read into dec_buffer behind the bytes kept,
\* then find and decode
DecBtRead ==
    /\ dec.pc = "loop" /\ dec.reads < MaxReads
    /\ \E chunk \in ScoChunks :
        LET len  == Min(Len(chunk), dec_buffer_size - dec.cnt)
            buf  == Store(dec.buf, dec.cnt, SubSeq(chunk, 1, len))
            cnt  == dec.cnt + len
            r    == iothread_find_and_decode_msbc(buf, cnt)
        IN  dec' = [dec EXCEPT !.op = "decode", !.reads = @ + 1,
                               !.given = [buf |-> buf, cnt |-> cnt],
                               !.buf = r.buf, !.cnt = r.cnt,
                               !.trace = r.trace, !.err = r.err]
    /\ UNCHANGED <<wvars, rvars, mvars, pvars, pcm_io, sink, pacer>>

\* read() returns -1: continue
DecBtReadError ==
    /\ dec.pc = "loop" /\ dec.op # "read_error"
    /\ dec' = [dec EXCEPT !.op = "read_error"]
    /\ UNCHANGED <<wvars, rvars, mvars, pvars, pcm_io, sink, pacer>>

\* an event with a PCM open runs iothread_initialize_msbc again
DecEvent ==
    /\ dec.pc = "loop" /\ dec.op # "init"
    /\ dec' = [DecStart EXCEPT !.reads = dec.reads]
    /\ UNCHANGED <<wvars, rvars, mvars, pvars, pcm_io, sink, pacer>>

NextDec == DecBtRead \/ DecBtReadError \/ DecEvent

SpecDec == InitDec /\ [][NextDec]_vars

\* how far the scan moves on from the entry e of the trace
Advance(e) == IF e.did = "frame" THEN e.len + SCO_H2_HDR_LEN ELSE 1

\* C35: the decode-sync step, for every content of dec_buffer.  The scan
\* starts at offset 0 and looks at an offset only while at least 59 bytes
\* remain from there; an offset whose byte 0 is 0x01 and whose byte 2 is 0xAD
\* is decoded as one frame from offset 2 and the scan moves on by what the
\* decoder consumed plus 2, every other offset moves it on by one byte; on
\* return fewer than 59 bytes remain and they are at the front of the
\* buffer in their order; on a decoder error the count is 0.
C35_DecodeSync ==
    dec.op = "decode" =>
        LET buf  == dec.given.buf
            cnt  == dec.given.cnt
            tr   == dec.trace
            stop == IF tr = <<>> THEN 0
                    ELSE tr[Len(tr)].at + Advance(tr[Len(tr)])
        IN  /\ tr # <<>> => tr[1].at = 0
            /\ \A i \in 1..Len(tr) :
                  /\ cnt - tr[i].at >= 59
                  /\ (buf[tr[i].at + 1] = 1 /\ buf[tr[i].at + 3] = 173)
                        <=> tr[i].did \in {"frame", "error"}
                  /\ tr[i].did \in {"frame", "error"} =>
                        tr[i].from = tr[i].at + 2
                  /\ tr[i].did = "frame" =>
                        SubSeq(buf, tr[i].at + 3, tr[i].at + 2 + tr[i].len)
                            = msbc_zero
                  /\ tr[i].did = "error" => i = Len(tr)
                  /\ i < Len(tr) => tr[i + 1].at = tr[i].at + Advance(tr[i])
            /\ dec.err <=> (tr # <<>> /\ tr[Len(tr)].did = "error")
            /\ dec.err => dec.cnt = 0
            /\ ~dec.err =>
                  /\ cnt - stop < 59
                  /\ dec.cnt = cnt - stop
                  /\ SubSeq(dec.buf, 1, dec.cnt) = SubSeq(buf, stop + 1, cnt)

\* C35: the scan went over a byte of no frame, decoded the frame behind it,
\* and kept the byte behind the frame at the front of the buffer
C35_Witness ==
    /\ dec.op = "decode" /\ ~dec.err
    /\ \E i \in 1..Len(dec.trace) :
          /\ dec.trace[i].did = "skip"
          /\ i < Len(dec.trace) /\ dec.trace[i + 1].did = "frame"
    /\ dec.given.cnt = SCO_H2_FRAME_LEN + 2
    /\ dec.cnt = 1 /\ dec.buf[1] = dec.given.buf[dec.given.cnt]

====
